---- MODULE Spec2Model ----
(***************************************************************************)
(* A model of two programs of the repository:                              *)
(*   - the IIRA profile store (core/fileinteraction.py, DBInteraction),    *)
(*     the Profile dialog (gui/helperframes.py, ProfileFrame) and the      *)
(*     main screen with its profile prompt (gui/mainframe.py);             *)
(*   - the documentation generator (prout.py, document_files).             *)
(* Each program has its own specification; the variables of the other      *)
(* program stay at their initial values.                                   *)
(***************************************************************************)
EXTENDS Integers, Sequences, FiniteSets, TLC

VARIABLES
    active_profile,   \* DBInteraction.active_profile ("" = none)
    profiles,         \* DBInteraction.profiles, the "others" list
    db_file,          \* lines of data/internal_db.csv as write_to_db leaves them
    last_call,        \* the last store call: operation, argument, state before, outcome
    all_ok,           \* TRUE while no store call has raised
    \* --- the Tk application (app.py, gui/) ---
    frame,            \* the screen App.show_frame raised last
    mode,             \* App.mode: "none" (None), "analyse" or "rate"
    formatted_text,   \* App.formatted_text, the imported subjects
    prompts,          \* number of open "Profil erstellen" windows (MainFrame.no_profile)
    windows,          \* the open ProfileFrame windows: [menu, entry]
    dialog,           \* title of the message box the last action showed ("" = none)
    callback_error,   \* exception the last Tk callback ended with ("" = none)
    \* --- RateFrame ---
    text,             \* RateFrame.text, the subjects in display order
    ratings,          \* RateFrame.ratings: <<>> or <<profile, value>> per entry
    text_index,       \* RateFrame.text_index (0-based)
    total_ratings,    \* RateFrame.total_ratings
    categories_var,   \* RateFrame.categories_var
    shuffler,         \* RateFrame.shuffler (<<>> = None)
    undo_shuffler,    \* RateFrame.undo_shuffler (<<>> = None)
    labeled,          \* children of the navigation tree tagged "labeled"
    saved,            \* what the latest action of the Rate screen handed to write_file
    \* --- AnalyseFrame and ResultsFrame (gui/analyseframe.py) ---
    intra_ids,        \* AnalyseFrame.intra_ids: the IntVar of each rater id
    inter_ids,        \* AnalyseFrame.inter_ids
    intra_metrics,    \* AnalyseFrame.intra_metrics: the IntVar of each metric
    inter_metrics,    \* AnalyseFrame.inter_metrics
    metrics,          \* AnalyseFrame.metrics, the metrics shown for the scale
    selected_intra_ids,      \* the module's list selected_intra_ids
    selected_inter_ids,      \* the module's list selected_inter_ids
    selected_intra_metrics,  \* the module's list selected_intra_metrics
    selected_inter_metrics,  \* the module's list selected_inter_metrics
    reliability_analyses,    \* ResultsFrame.reliability_analyses: what CreateAnalyses got
    start_log,               \* whether analyse_start has rejected, has accepted so far
    \* --- FileValidation (core/fileinteraction.py) ---
    filevalidation,   \* the FileValidation object of the last import, or how it failed
    written,          \* the table the last write_file wrote, or that it raised
    session,          \* the App attributes select_file assigns: filevalidation,
                      \* categories, rater_ids, text, labels
    \* --- CreateAnalyses and Metrics (core/create_analyses.py, core/metrics.py) ---
    ca,               \* the last call: its arguments, the table built, the result
    \* --- RateFrame.randomize on its own (gui/rateframe.py) ---
    rf,               \* a RateFrame: text, ratings, shuffler, undo_shuffler, the
                      \* randomize calls made on it and the lists it had before
    \* --- the documentation generator (prout.py, document_files) ---
    packages,         \* the groups list_all_files yields: [files, path]
    fs,               \* content of every file under the root, by <<directory, name>>
    pc,               \* "loop", "readme", "done", or "failed": an exception ended the run
    pkg_idx,          \* index of the group of the outer for loop
    file_idx,         \* index of the file of the inner for loop
    visited_nodes,    \* ids of the elements picked in the loop of the current file
    treated_files,    \* items of the dict treated_files: <<filename, doc>>
    treated_package,  \* items of the dict treated_package: <<package_path, doc>>
    llm_calls,        \* the chain invocations so far: prompt, file, element, context
    writes,           \* the files written so far, in order
    last_iter,        \* the last iteration: what it picked, the reply, fs before it
    file_hist         \* the loop of the current file: the content at its start,
                      \* whether every reply so far gave one non-empty block

storeVars == <<active_profile, profiles, db_file, last_call, all_ok>>
navVars == <<frame, mode, formatted_text>>
dlgVars == <<prompts, windows, dialog, callback_error>>
rateVars == <<text, ratings, text_index, total_ratings, categories_var,
              shuffler, undo_shuffler, labeled, saved>>
anaVars == <<intra_ids, inter_ids, intra_metrics, inter_metrics, metrics,
             selected_intra_ids, selected_inter_ids, selected_intra_metrics,
             selected_inter_metrics, reliability_analyses, start_log>>
guiVars == <<navVars, dlgVars, rateVars, anaVars>>
docVars == <<packages, fs, pc, pkg_idx, file_idx, visited_nodes, treated_files,
             treated_package, llm_calls, writes, last_iter, file_hist>>
fileVars == <<filevalidation, written, session, ca, rf>>
vars == <<storeVars, guiVars, docVars, fileVars>>

\* ------------------------------------------------------------------------
\* Bounds
\* ------------------------------------------------------------------------
MaxProfiles == 3      \* create_profile is not called once others holds this many

\* Profile names a caller can pass. "NA" is an ordinary name for the user
\* and one of the tokens pandas.read_csv reads as a missing value.
Names == {"bob", "carol", "NA"}

\* ------------------------------------------------------------------------
\* Sequence helpers (Python list semantics)
\* ------------------------------------------------------------------------
Range(s) == {s[i] : i \in DOMAIN s}

\* index of the first element equal to x, 0 when absent
IndexOf(s, x) ==
    IF \E i \in DOMAIN s : s[i] = x
    THEN CHOOSE i \in DOMAIN s : s[i] = x /\ \A j \in 1..(i-1) : s[j] # x
    ELSE 0

\* list.remove(x) for x in the list: drops the first element equal to x
ListRemove(s, x) ==
    LET i == IndexOf(s, x)
    IN  SubSeq(s, 1, i-1) \o SubSeq(s, i+1, Len(s))

Count(s, x) == Cardinality({i \in DOMAIN s : s[i] = x})

\* ------------------------------------------------------------------------
\* pandas: DataFrame.to_csv(sep=";", index=False, header=True) and
\* read_csv(delimiter=";") on the one-column table "Profile"
\* ------------------------------------------------------------------------
\* the float nan that read_csv yields for a missing value
NaN == "<float nan>"

\* tokens read_csv takes for a missing value (keep_default_na)
NaTokens == {"", "NA", "N/A", "n/a", "NaN", "nan", "-nan", "NULL", "null",
             "None", "<NA>", "#N/A", "#NA"}

\* csv.writer, QUOTE_MINIMAL: a row whose only field is empty is written as ""
CsvField(v) == IF v = "" THEN "\"\"" ELSE v

\* the reader strips the quotes of a quoted field and then looks the text up
\* in the missing-value tokens
ParseField(t) ==
    LET unquoted == IF t = "\"\"" THEN "" ELSE t
    IN  IF unquoted \in NaTokens THEN NaN ELSE unquoted

\* the lines of the file: the header, then one line per value
to_csv(column) == <<"Profile">> \o [i \in DOMAIN column |-> CsvField(column[i])]

\* the column self.db["Profile"] of the file
read_csv(lines) == [i \in 1..(Len(lines) - 1) |-> ParseField(lines[i + 1])]

\* ------------------------------------------------------------------------
\* DBInteraction
\* ------------------------------------------------------------------------
\* A store is the record of the object's fields and of the file it writes;
\* raised is the exception the call ended with ("" when it returned).
Store(a, p, f, r) == [active_profile |-> a, profiles |-> p, db_file |-> f, raised |-> r]

\* DBInteraction.write_to_db
write_to_db(s) ==
    [s EXCEPT !.db_file = to_csv(<<s.active_profile>> \o s.profiles)]

\* DBInteraction.__init__ + load_profiles: the fields start as "" and [],
\* and are set only when the first row is not null
load_profiles(lines) ==
    LET col == read_csv(lines)
    IN  IF Len(col) > 0 /\ col[1] # NaN
        THEN Store(col[1], Tail(col), lines, "")
        ELSE Store("", <<>>, lines, "")

\* create_profile without the test for an active profile
create_profile_unguarded(s, new_profile) ==
    write_to_db([s EXCEPT !.profiles = Append(s.profiles, s.active_profile),
                          !.active_profile = new_profile,
                          !.raised = ""])

\* DBInteraction.create_profile
create_profile(s, new_profile) ==
    LET others == IF s.active_profile # ""
                  THEN Append(s.profiles, s.active_profile)
                  ELSE s.profiles
    IN  write_to_db([s EXCEPT !.profiles = others,
                              !.active_profile = new_profile,
                              !.raised = ""])

\* delete_profile promoting the last entry of others instead of the first
delete_profile_last(s) ==
    IF s.profiles = <<>>
    THEN [s EXCEPT !.raised = "IndexError"]
    ELSE LET last == s.profiles[Len(s.profiles)]
         IN  write_to_db([s EXCEPT !.active_profile = last,
                                   !.profiles = ListRemove(s.profiles, last),
                                   !.raised = ""])

\* DBInteraction.delete_profile: self.profiles[0] raises IndexError on an
\* empty list before anything is assigned
delete_profile(s) ==
    IF s.profiles = <<>>
    THEN [s EXCEPT !.raised = "IndexError"]
    ELSE LET first == s.profiles[1]
         IN  write_to_db([s EXCEPT !.active_profile = first,
                                   !.profiles = ListRemove(s.profiles, first),
                                   !.raised = ""])

\* change_profile that forgets to put the previous profile into others
change_profile_forgets(s, change_to) ==
    IF IndexOf(s.profiles, change_to) = 0
    THEN [s EXCEPT !.active_profile = change_to, !.raised = "ValueError"]
    ELSE write_to_db([s EXCEPT !.active_profile = change_to,
                               !.profiles = ListRemove(s.profiles, change_to),
                               !.raised = ""])

\* DBInteraction.change_profile: active_profile is assigned before
\* list.remove runs, so a ValueError leaves it assigned and nothing written
change_profile(s, change_to) ==
    LET tmp == s.active_profile
    IN  IF IndexOf(s.profiles, change_to) = 0
        THEN [s EXCEPT !.active_profile = change_to, !.raised = "ValueError"]
        ELSE write_to_db([s EXCEPT !.active_profile = change_to,
                                   !.profiles = Append(ListRemove(s.profiles, change_to), tmp),
                                   !.raised = ""])

TheStore == Store(active_profile, profiles, db_file, "")

\* the store variables after a call that produced the store t
StoreBecomes(t, op, arg) ==
    /\ active_profile' = t.active_profile
    /\ profiles' = t.profiles
    /\ db_file' = t.db_file
    /\ last_call' = [op |-> op, arg |-> arg,
                     pre_active |-> active_profile, pre_profiles |-> profiles,
                     pre_file |-> db_file, raised |-> t.raised]
    /\ all_ok' = (all_ok /\ t.raised = "")

NoCall == [op |-> "init", arg |-> "", pre_active |-> "", pre_profiles |-> <<>>,
           pre_file |-> <<>>, raised |-> ""]

\* The profile file the application starts from: no profile yet, one
\* profile, or an active profile and another one.
InitFiles == {to_csv(<<>>), to_csv(<<"bob">>), to_csv(<<"carol", "bob">>)}

InitStoreVars ==
    \E f \in InitFiles :
        LET s == load_profiles(f)
        IN  /\ active_profile = s.active_profile
            /\ profiles = s.profiles
            /\ db_file = s.db_file
            /\ last_call = NoCall
            /\ all_ok = TRUE

\* nothing was handed to write_file
NoSave == [written |-> FALSE, ratings |-> <<>>, text |-> <<>>]

\* ------------------------------------------------------------------------
\* SpecStore: a caller of the store methods
\* ------------------------------------------------------------------------
\* RateFrame.__init__
RateInit ==
    /\ text = <<>> /\ ratings = <<>> /\ text_index = 0 /\ total_ratings = 0
    /\ categories_var = "" /\ shuffler = <<>> /\ undo_shuffler = <<>>
    /\ labeled = {} /\ saved = NoSave

\* the keys of AnalyseFrame.intra_metrics and inter_metrics, in dict order
MetricNames == <<"Kappa", "Fleiss", "Alpha", "AC", "ICC">>

\* ResultsFrame before calculate_results
NoAnalyses ==
    [made |-> FALSE, intra_id_list |-> <<>>, inter_id_list |-> <<>>,
     intra_metrics |-> <<>>, inter_metrics |-> <<>>, intra |-> FALSE, inter |-> FALSE]

\* AnalyseFrame.__init__ and ResultsFrame.__init__
FramesInit ==
    /\ intra_ids = <<>> /\ inter_ids = <<>>
    /\ intra_metrics = [m \in Range(MetricNames) |-> 0]
    /\ inter_metrics = [m \in Range(MetricNames) |-> 0]
    /\ metrics = <<>>
    /\ reliability_analyses = NoAnalyses

\* gui/analyseframe.py as imported: the four module lists are empty
AnaInit ==
    /\ FramesInit
    /\ selected_intra_ids = <<>> /\ selected_inter_ids = <<>>
    /\ selected_intra_metrics = <<>> /\ selected_inter_metrics = <<>>
    /\ start_log = [rejected |-> FALSE, accepted |-> FALSE]

\* no application is running
GuiIdle ==
    /\ frame = "none" /\ mode = "none" /\ formatted_text = <<>>
    /\ prompts = 0 /\ windows = {} /\ dialog = "" /\ callback_error = ""
    /\ RateInit
    /\ AnaInit

\* a table: its headers and, per row, one cell per header
Table(columns, rows) == [columns |-> columns, rows |-> rows]

\* no file was imported and none written
NoFile ==
    [state |-> "none", content |-> Table(<<>>, <<>>), scale_format |-> "",
     format |-> "", categories |-> <<>>, rater_ids |-> <<>>, text |-> <<>>,
     formatted_text |-> <<>>, labels |-> <<>>]

NotWritten == [state |-> "none", table |-> Table(<<>>, <<>>), ratings |-> <<>>]

\* App.__init__: filevalidation = None, categories = [], rater_ids = [],
\* text = [], labels = {}
NoSession ==
    [filevalidation |-> NoFile, categories |-> <<>>, rater_ids |-> <<>>,
     text |-> <<>>, labels |-> <<>>]

\* no analysis was made
NoAnalysis ==
    [op |-> "none", data |-> <<>>, ids |-> <<>>, categories |-> <<>>,
     ret |-> <<>>, table |-> <<>>, state |-> "", p_a |-> <<>>]

\* a RateFrame as constructed, no randomize call made
NoFrame ==
    [text |-> <<>>, ratings |-> <<>>, shuffler |-> <<>>, undo_shuffler |-> <<>>,
     calls |-> <<>>, text0 |-> <<>>, ratings0 |-> <<>>]

FileIdle ==
    /\ filevalidation = NoFile /\ written = NotWritten /\ session = NoSession
    /\ ca = NoAnalysis /\ rf = NoFrame

\* document_files is not running
DocIdle ==
    /\ packages = <<>> /\ fs = <<>> /\ pc = "idle" /\ pkg_idx = 0 /\ file_idx = 0
    /\ visited_nodes = {} /\ treated_files = <<>> /\ treated_package = <<>>
    /\ llm_calls = <<>> /\ writes = <<>>
    /\ last_iter = [step |-> "none"]
    /\ file_hist = [start |-> <<>>, good |-> TRUE]

CallCreateProfile ==
    /\ UNCHANGED <<docVars, fileVars>>
    /\ Len(profiles) < MaxProfiles
    /\ \E name \in Names \cup {""} :
          StoreBecomes(create_profile(TheStore, name), "create_profile", name)
    /\ UNCHANGED guiVars

CallDeleteProfile ==
    /\ UNCHANGED <<docVars, fileVars>>
    /\ StoreBecomes(delete_profile(TheStore), "delete_profile", "")
    /\ UNCHANGED guiVars

CallChangeProfile ==
    /\ UNCHANGED <<docVars, fileVars>>
    /\ \E target \in Names \cup {""} :
          StoreBecomes(change_profile(TheStore, target), "change_profile", target)
    /\ UNCHANGED guiVars

InitStore == InitStoreVars /\ GuiIdle /\ DocIdle /\ FileIdle

NextStore == CallCreateProfile \/ CallDeleteProfile \/ CallChangeProfile

SpecStore == InitStore /\ [][NextStore]_vars

\* ------------------------------------------------------------------------
\* Claims about the profile store (SpecStore)
\* ------------------------------------------------------------------------
AllNames == Names \cup {""}

Persisted == db_file = to_csv(<<active_profile>> \o profiles)

\* C5: create_profile(name) appends the active profile, when there is one,
\* to the end of the others list and otherwise leaves the list unchanged;
\* name becomes the active profile; the full state is persisted.
C5_CreateProfile ==
    last_call.op = "create_profile" =>
        /\ last_call.raised = ""
        /\ active_profile = last_call.arg
        /\ profiles = IF last_call.pre_active # ""
                      THEN last_call.pre_profiles \o <<last_call.pre_active>>
                      ELSE last_call.pre_profiles
        /\ Persisted

\* create_profile("carol") on active = bob, others = [] gave carol, [bob]
C5_Witness ==
    /\ last_call.op = "create_profile"
    /\ last_call.pre_active = "bob" /\ last_call.pre_profiles = <<>>
    /\ active_profile = "carol" /\ profiles = <<"bob">>

\* C6: delete_profile() with a non-empty others list makes the first entry
\* of others the active profile, removes exactly that entry (the rest keeps
\* its order), drops the previously active profile and persists; with an
\* empty others list it fails with an out-of-range error.
C6_DeleteProfile ==
    last_call.op = "delete_profile" =>
        IF last_call.pre_profiles # <<>>
        THEN /\ last_call.raised = ""
             /\ active_profile = Head(last_call.pre_profiles)
             /\ profiles = Tail(last_call.pre_profiles)
             /\ Persisted
        ELSE last_call.raised = "IndexError"

\* delete_profile() on an others list of two or more entries
C6_Witness ==
    /\ last_call.op = "delete_profile"
    /\ Len(last_call.pre_profiles) >= 2
    /\ last_call.pre_profiles[1] # last_call.pre_profiles[2]
    /\ last_call.raised = ""

\* C7: change_profile(target) with target in others makes target the active
\* profile and removes it from others, adds the previously active profile to
\* others, and keeps the collection of all profiles (with multiplicity);
\* with target not in others it fails with a not-found error.
C7_ChangeProfile ==
    last_call.op = "change_profile" =>
        IF last_call.arg \in Range(last_call.pre_profiles)
        THEN /\ last_call.raised = ""
             /\ active_profile = last_call.arg
             /\ \A n \in AllNames :
                    Count(profiles, n) =
                        Count(last_call.pre_profiles, n)
                        - (IF n = last_call.arg THEN 1 ELSE 0)
                        + (IF n = last_call.pre_active THEN 1 ELSE 0)
             /\ \A n \in AllNames :
                    Count(<<active_profile>> \o profiles, n) =
                        Count(<<last_call.pre_active>> \o last_call.pre_profiles, n)
        ELSE last_call.raised = "ValueError"

\* change_profile(target) swapped two different profiles
C7_Witness ==
    /\ last_call.op = "change_profile"
    /\ last_call.raised = ""
    /\ Len(last_call.pre_profiles) >= 2
    /\ last_call.pre_active # "" /\ last_call.pre_active # last_call.arg

\* C8: after any sequence of successful create_profile, delete_profile and
\* change_profile calls (with non-empty names), the file holds [active]
\* followed by others under the header Profile, and a new DBInteraction
\* loaded from that file has the same active profile and the same others.
C8_RoundTrip ==
    (all_ok /\ last_call.op # "init"
            /\ active_profile # "" /\ "" \notin Range(profiles)) =>
        /\ db_file = <<"Profile", active_profile>> \o profiles
        /\ load_profiles(db_file).active_profile = active_profile
        /\ load_profiles(db_file).profiles = profiles

\* ------------------------------------------------------------------------
\* The Tk application: MainFrame and its profile prompt, ProfileFrame
\* ------------------------------------------------------------------------
MaxWindows == 2       \* ProfileFrame windows open at the same time
MaxPrompts == 2       \* "Profil erstellen" windows open at the same time
MaxGuiProfiles == 2   \* no profile is created in a dialog once others holds this many

\* names typed into an Entry; "" is an Entry left empty
GuiNames == {"bob", "carol"}

\* the store variables after a store call made by a Tk callback; an
\* exception of the call ends the callback and Tk reports it
StoreSet(t) ==
    /\ active_profile' = t.active_profile
    /\ profiles' = t.profiles
    /\ db_file' = t.db_file
    /\ callback_error' = t.raised
    /\ UNCHANGED <<last_call, all_ok>>

\* MainFrame.__init__: no_profile() opens one more prompt window when there
\* is no active profile; the window is a plain Toplevel, the constructor
\* goes on and the main screen stays usable
PromptsAfterMainFrameInit(active, open) == IF active = "" THEN open + 1 ELSE open

\* App.__init__ -> DBInteraction(...), init_frames(), show_frame("MainFrame")
InitApp ==
    /\ InitStoreVars
    /\ frame = "MainFrame" /\ mode = "none" /\ formatted_text = <<>>
    /\ prompts = PromptsAfterMainFrameInit(active_profile, 0)
    /\ windows = {} /\ dialog = "" /\ callback_error = ""
    /\ RateInit
    /\ AnaInit
    /\ DocIdle
    /\ FileIdle

\* MainFrame.no_profile.start_cmd: the "Starten" button of a prompt window
PromptStart ==
    /\ UNCHANGED <<docVars, fileVars>>
    /\ prompts > 0
    /\ \E user_input \in GuiNames \cup {""} :
          IF user_input = ""
          THEN /\ dialog' = "Profil anlegen"
               /\ callback_error' = ""
               /\ UNCHANGED <<storeVars, prompts>>
          ELSE /\ Len(profiles) < MaxGuiProfiles
               /\ StoreSet(create_profile(TheStore, user_input))
               /\ prompts' = prompts - 1
               /\ dialog' = ""
    /\ UNCHANGED <<navVars, windows, rateVars, anaVars>>

\* the window manager's close button of a prompt window
PromptClose ==
    /\ UNCHANGED <<docVars, fileVars>>
    /\ prompts > 0
    /\ prompts' = prompts - 1
    /\ dialog' = "" /\ callback_error' = ""
    /\ UNCHANGED <<storeVars, navVars, windows, rateVars, anaVars>>

\* ContainerFrame.profile_cmd -> ProfileFrame.__init__: the menu lists the
\* others of this moment; the name field is not shown yet
ProfileCmd ==
    /\ UNCHANGED <<docVars, fileVars>>
    /\ frame # "none"
    /\ Cardinality(windows) < MaxWindows
    /\ windows' = windows \cup {[menu |-> profiles, entry |-> FALSE]}
    /\ dialog' = "" /\ callback_error' = ""
    /\ UNCHANGED <<storeVars, navVars, prompts, rateVars, anaVars>>

\* ProfileFrame.create_new_profile: shows the name field
ProfileCreateNew ==
    /\ UNCHANGED <<docVars, fileVars>>
    /\ \E w \in windows :
          /\ ~w.entry
          /\ windows' = (windows \ {w}) \cup {[w EXCEPT !.entry = TRUE]}
    /\ dialog' = "" /\ callback_error' = ""
    /\ UNCHANGED <<storeVars, navVars, prompts, rateVars, anaVars>>

\* ProfileFrame.ok_cmd: an empty user_input closes the window; otherwise
\* create_profile, populate_profile_label, populate_change_profile_menu,
\* and the name field is removed
ProfileOk ==
    /\ UNCHANGED <<docVars, fileVars>>
    /\ \E w \in windows :
       \E user_input \in (IF w.entry THEN GuiNames \cup {""} ELSE {""}) :
          IF user_input = ""
          THEN /\ windows' = windows \ {w}
               /\ callback_error' = ""
               /\ UNCHANGED storeVars
          ELSE /\ Len(profiles) < MaxGuiProfiles
               /\ StoreSet(create_profile(TheStore, user_input))
               /\ windows' = (windows \ {w}) \cup
                                {[menu |-> profiles', entry |-> FALSE]}
    /\ dialog' = ""
    /\ UNCHANGED <<navVars, prompts, rateVars, anaVars>>

\* ProfileFrame.change_profile: a radio button of this window's menu; the
\* label and the menu are refreshed only when the store call returns
ProfileChange ==
    /\ UNCHANGED <<docVars, fileVars>>
    /\ \E w \in windows :
       \E profile_selection \in Range(w.menu) :
          /\ StoreSet(change_profile(TheStore, profile_selection))
          /\ windows' = IF callback_error' = ""
                        THEN (windows \ {w}) \cup {[w EXCEPT !.menu = profiles']}
                        ELSE windows
    /\ dialog' = ""
    /\ UNCHANGED <<navVars, prompts, rateVars, anaVars>>

\* delete_profile of the dialog without the test for other profiles
ProfileDeleteUnguarded ==
    /\ UNCHANGED <<docVars, fileVars>>
    /\ \E w \in windows :
          /\ StoreSet(delete_profile(TheStore))
          /\ windows' = (windows \ {w}) \cup {[w EXCEPT !.menu = profiles']}
          /\ dialog' = ""
    /\ UNCHANGED <<navVars, prompts, rateVars, anaVars>>

\* ProfileFrame.delete_profile
ProfileDelete ==
    /\ UNCHANGED <<docVars, fileVars>>
    /\ \E w \in windows :
          IF Len(profiles) = 0
          THEN /\ dialog' = "Einziges Profil"
               /\ callback_error' = ""
               /\ UNCHANGED <<storeVars, windows>>
          ELSE /\ StoreSet(delete_profile(TheStore))
               /\ windows' = (windows \ {w}) \cup {[w EXCEPT !.menu = profiles']}
               /\ dialog' = ""
    /\ UNCHANGED <<navVars, prompts, rateVars, anaVars>>

\* SpecDialog: the application on its main screen, the profile prompt and
\* the Profile dialog
NextDialog ==
    \/ PromptStart
    \/ PromptClose
    \/ ProfileCmd
    \/ ProfileCreateNew
    \/ ProfileOk
    \/ ProfileChange
    \/ ProfileDelete

SpecDialog == InitApp /\ [][NextDialog]_vars

\* ------------------------------------------------------------------------
\* Claims about the Profile dialog (SpecDialog)
\* ------------------------------------------------------------------------
\* C9: through the Profile dialog actions, once an active profile exists
\* the active profile is never empty again; a Delete request while the
\* others list is empty shows the "only profile" dialog and leaves the
\* active profile, the others list and the profile file unchanged.
C9_ProfileDialog ==
    [][ /\ (active_profile # "" => active_profile' # "")
        /\ (ProfileDelete /\ profiles = <<>> =>
               /\ dialog' = "Einziges Profil"
               /\ UNCHANGED <<active_profile, profiles, db_file>>) ]_vars

\* Delete was requested on the sole profile and the dialog was shown
C9_Witness ==
    /\ dialog = "Einziges Profil"
    /\ active_profile # "" /\ profiles = <<>>
    /\ windows # {}

\* ------------------------------------------------------------------------
\* The screens: MainFrame -> ScaleFrame -> FileFrame -> RateFrame
\* ------------------------------------------------------------------------
NumSubjects == 2      \* subjects of the imported file
PageSize == 10        \* children per parent node of the navigation tree
MaxTotalRatings == 4  \* no unrated subject is rated once total_ratings is this
MaxRaters == 2        \* rater ids of the file imported for an analysis
MaxRows == 2          \* rows of an imported file

\* the categories of the imported file (discrete scale)
Categories == {"pos", "neg"}

\* the subjects FileValidation yields for the imported file
ImportedText == [i \in 1..NumSubjects |-> i]

\* all orders numpy.random.permutation(n) can return
Shuffles(n) ==
    {q \in [1..n -> 1..n] : \A i, j \in 1..n : q[i] = q[j] => i = j}

\* [s[j] for j in perm]
Permute(s, perm) == [i \in 1..Len(perm) |-> s[perm[i]]]

\* numpy.argsort of a permutation: its inverse
ArgSort(perm) == [i \in 1..Len(perm) |-> CHOOSE j \in 1..Len(perm) : perm[j] = i]

\* MainFrame.start_mode: the Analyse and Rate buttons of the main screen
StartMode ==
    /\ UNCHANGED <<docVars, fileVars>>
    /\ frame = "MainFrame"
    /\ \E m \in {"analyse", "rate"} : mode' = m
    /\ frame' = "ScaleFrame"
    /\ dialog' = "" /\ callback_error' = ""
    /\ UNCHANGED <<storeVars, formatted_text, prompts, windows, rateVars, anaVars>>

\* ScaleFrame.next_cmd
ScaleNext ==
    /\ UNCHANGED <<docVars, fileVars>>
    /\ frame = "ScaleFrame"
    /\ frame' = "FileFrame"
    /\ dialog' = "" /\ callback_error' = ""
    /\ UNCHANGED <<storeVars, mode, formatted_text, prompts, windows, rateVars, anaVars>>

\* the rater ids FileValidation yields for the imported file
rater_ids == [i \in 1..MaxRaters |-> i]

\* the scale formats of the sessions
ScaleFormats == {"intervall", "rational"}

\* AnalyseFrame.populate_metrics_container: the metrics offered for a scale
MetricsOf(scale_format) ==
    IF scale_format \in {"nominal", "ordinal"}
    THEN <<"Kappa", "Fleiss", "Alpha", "AC">>
    ELSE <<"ICC">>

\* AnalyseFrame.update_frame: a fresh IntVar per rater id, and the metrics
\* of container.scale_format, which the Scale screen set
AnalyseUpdateFrame ==
    /\ intra_ids' = [i \in Range(rater_ids) |-> 0]
    /\ inter_ids' = [i \in Range(rater_ids) |-> 0]
    /\ \E scale_format \in ScaleFormats : metrics' = MetricsOf(scale_format)
    /\ UNCHANGED <<intra_metrics, inter_metrics, selected_intra_ids,
                   selected_inter_ids, selected_intra_metrics,
                   selected_inter_metrics, reliability_analyses, start_log>>

\* RateFrame.update_frame(mode) followed by show_frame("RateFrame"):
\* one empty rating is appended per subject, randomize("do") permutes both
\* lists, and populate_navigation rebuilds the tree without any tag
RateUpdateFrame(randomized) ==
    LET t == formatted_text'
        r == ratings \o [i \in 1..Len(t) |-> <<>>]
    IN  /\ \E q \in (IF randomized THEN Shuffles(Len(t)) ELSE {<<>>}) :
              /\ shuffler' = q
              /\ undo_shuffler' = IF randomized THEN ArgSort(q) ELSE undo_shuffler
              /\ text' = IF randomized THEN Permute(t, q) ELSE t
              /\ ratings' = IF randomized THEN Permute(r, q) ELSE r
        /\ labeled' = {}
        /\ saved' = NoSave
        /\ UNCHANGED <<text_index, total_ratings, categories_var>>

\* FileFrame.select_file: the file chooser is cancelled, the import raises,
\* or the import succeeds and the screen of the session mode is shown
SelectFile ==
    /\ UNCHANGED <<docVars, fileVars>>
    /\ frame = "FileFrame"
    /\ callback_error' = ""
    /\ \E outcome \in {"cancelled", "failed", "imported"} :
          CASE outcome = "cancelled" ->
                  /\ dialog' = ""
                  /\ UNCHANGED <<navVars, rateVars, anaVars>>
            [] outcome = "failed" ->
                  /\ dialog' = "Error"
                  /\ UNCHANGED <<navVars, rateVars, anaVars>>
            [] outcome = "imported" ->
                  /\ formatted_text' = ImportedText
                  /\ dialog' = ""
                  /\ UNCHANGED mode
                  /\ IF mode = "analyse"
                     THEN /\ frame' = "AnalyseFrame"
                          /\ UNCHANGED rateVars
                          /\ AnalyseUpdateFrame
                     ELSE IF mode = "rate"
                     THEN /\ frame' = "RateFrame"
                          /\ \E randomized \in BOOLEAN : RateUpdateFrame(randomized)
                          /\ UNCHANGED anaVars
                     ELSE frame' = "MainFrame" /\ UNCHANGED <<rateVars, anaVars>>
    /\ UNCHANGED <<storeVars, prompts, windows>>

\* RateFrame.save_cmd: randomize("undo") when a shuffler exists, then
\* write_file(filename, self.ratings); the lists after the call, and in
\* saved the list handed to write_file with the order self.text had then
SaveCmd(t, r) ==
    LET back == shuffler # <<>>
        r2 == IF back THEN Permute(r, undo_shuffler) ELSE r
        t2 == IF back THEN Permute(t, undo_shuffler) ELSE t
    IN  [text |-> t2,
         ratings |-> r2,
         saved |-> [written |-> TRUE, ratings |-> r2, text |-> t2]]

\* the children of the parent node of child k (0-based)
PageOf(k) == {c \in 0..(Len(text) - 1) : c \div PageSize = k \div PageSize}

\* label_text without the branch that clears a rating of the same value
label_text_overwrites(cur, profile, value) == <<profile, value>>

\* the entry label_text leaves in self.ratings[self.text_index], which
\* was cur, when the chosen category is value
label_text_rating(cur, profile, value) ==
    IF cur # <<>>
    THEN IF cur[2] = value THEN <<>> ELSE <<profile, value>>
    ELSE <<profile, value>>

\* RateFrame.label_text, called by a radio button or a digit hotkey after
\* categories_var was set to the chosen category
LabelText ==
    /\ UNCHANGED <<docVars, fileVars>>
    /\ frame = "RateFrame"
    /\ text_index + 1 \in DOMAIN ratings
    /\ \E value \in Categories, save_now \in BOOLEAN :
          LET cur == ratings[text_index + 1]
              rated == [ratings EXCEPT ![text_index + 1] =
                                     label_text_rating(cur, active_profile, value)]
          IN  IF cur # <<>>
              THEN IF cur[2] = value
                   THEN /\ ratings' = rated
                        /\ categories_var' = ""
                        /\ total_ratings' = total_ratings - 1
                        /\ labeled' = labeled \ {text_index}
                        /\ dialog' = ""
                        /\ ~save_now
                        /\ saved' = NoSave /\ UNCHANGED text
                   ELSE /\ ratings' = rated
                        /\ categories_var' = value
                        /\ dialog' = ""
                        /\ ~save_now
                        /\ saved' = NoSave
                        /\ UNCHANGED <<text, total_ratings, labeled>>
              ELSE /\ total_ratings < MaxTotalRatings
                   /\ categories_var' = value
                   /\ total_ratings' = total_ratings + 1
                   /\ labeled' = labeled \cup {text_index}
                   /\ IF PageOf(text_index) \subseteq labeled'
                         /\ total_ratings' = Len(text)
                      THEN \* labeling_finished asks "Bewertungen speichern?"
                           /\ dialog' = "Glueckwunsch"
                           /\ IF save_now
                              THEN /\ text' = SaveCmd(text, rated).text
                                   /\ ratings' = SaveCmd(text, rated).ratings
                                   /\ saved' = SaveCmd(text, rated).saved
                              ELSE /\ ratings' = rated
                                   /\ saved' = NoSave /\ UNCHANGED text
                      ELSE /\ dialog' = ""
                           /\ ~save_now
                           /\ ratings' = rated
                           /\ saved' = NoSave /\ UNCHANGED text
    /\ callback_error' = ""
    /\ UNCHANGED <<storeVars, navVars, prompts, windows, anaVars, text_index,
                   shuffler, undo_shuffler>>

\* the radio buttons show the rating of the subject navigated to
ShownRating(k) == IF ratings[k + 1] # <<>> THEN ratings[k + 1][2] ELSE ""

\* RateFrame.next_cmd
NextCmd ==
    /\ UNCHANGED <<docVars, fileVars>>
    /\ frame = "RateFrame"
    /\ text_index # Len(text) - 1
    /\ text_index + 2 \in DOMAIN ratings
    /\ text_index' = text_index + 1
    /\ categories_var' = ShownRating(text_index + 1)
    /\ dialog' = "" /\ callback_error' = ""
    /\ UNCHANGED <<storeVars, navVars, prompts, windows, anaVars, text, ratings,
                   total_ratings, shuffler, undo_shuffler, labeled>>
    /\ saved' = NoSave

\* RateFrame.prev_cmd
PrevCmd ==
    /\ UNCHANGED <<docVars, fileVars>>
    /\ frame = "RateFrame"
    /\ text_index # 0
    /\ text_index' = text_index - 1
    /\ categories_var' = ShownRating(text_index - 1)
    /\ dialog' = "" /\ callback_error' = ""
    /\ UNCHANGED <<storeVars, navVars, prompts, windows, anaVars, text, ratings,
                   total_ratings, shuffler, undo_shuffler, labeled>>
    /\ saved' = NoSave

\* RateFrame.doubleclick_treeview on the child row k of the navigation tree
DoubleClick ==
    /\ UNCHANGED <<docVars, fileVars>>
    /\ frame = "RateFrame"
    /\ \E k \in 0..(Len(text) - 1) :
          /\ text_index' = k
          /\ categories_var' = ShownRating(k)
    /\ dialog' = "" /\ callback_error' = ""
    /\ UNCHANGED <<storeVars, navVars, prompts, windows, anaVars, text, ratings,
                   total_ratings, shuffler, undo_shuffler, labeled>>
    /\ saved' = NoSave

\* RateFrame.save_cmd from the "Speichern" entry of the menu bar
SaveMenu ==
    /\ UNCHANGED <<docVars, fileVars>>
    /\ frame = "RateFrame"
    /\ text # <<>>
    /\ text' = SaveCmd(text, ratings).text
    /\ ratings' = SaveCmd(text, ratings).ratings
    /\ saved' = SaveCmd(text, ratings).saved
    /\ dialog' = "" /\ callback_error' = ""
    /\ UNCHANGED <<storeVars, navVars, prompts, windows, anaVars, text_index, total_ratings,
                   categories_var, shuffler, undo_shuffler, labeled>>

\* RateFrame.delete_cmd, the "Verwerfen" entry of the menu bar: after a
\* yes the ratings are emptied and, once per entry of self.text, one empty
\* rating is appended and update_frame() is called, which sets self.text
\* to the imported list, appends one empty rating per subject and rebuilds
\* the navigation tree; total_ratings and the shuffler stay as they are
DeleteCmd ==
    /\ UNCHANGED <<docVars, fileVars>>
    /\ frame = "RateFrame"
    /\ text # <<>>
    /\ \E result \in BOOLEAN :
          IF result
          THEN /\ categories_var' = ""
               /\ ratings' = [i \in 1..(Len(text) * (1 + Len(formatted_text))) |-> <<>>]
               /\ text_index' = 0
               /\ text' = formatted_text
               /\ labeled' = {}
          ELSE UNCHANGED <<categories_var, ratings, text_index, text, labeled>>
    /\ dialog' = "Verwerfen" /\ callback_error' = ""
    /\ UNCHANGED <<storeVars, navVars, prompts, windows, anaVars, total_ratings,
                   shuffler, undo_shuffler>>
    /\ saved' = NoSave

\* ContainerFrame.home_cmd and RateFrame.home_cmd: the Rate screen first
\* asks whether to save; App.init_frames builds every screen anew, so the
\* new MainFrame prompts again when there is no active profile, and the
\* new RateFrame starts empty
HomeCmd ==
    /\ UNCHANGED <<docVars, fileVars>>
    /\ frame # "none"
    /\ prompts < MaxPrompts
    /\ \E save_first \in (IF frame = "RateFrame" THEN BOOLEAN ELSE {FALSE}) :
          /\ saved' = IF save_first THEN SaveCmd(text, ratings).saved ELSE NoSave
          /\ dialog' = IF frame = "RateFrame" THEN "Speichern?" ELSE ""
    /\ text' = <<>> /\ ratings' = <<>> /\ text_index' = 0 /\ total_ratings' = 0
    /\ categories_var' = "" /\ shuffler' = <<>> /\ undo_shuffler' = <<>>
    /\ labeled' = {}
    /\ prompts' = PromptsAfterMainFrameInit(active_profile, prompts)
    /\ frame' = "MainFrame"
    /\ callback_error' = ""
    /\ intra_ids' = <<>> /\ inter_ids' = <<>>
    /\ intra_metrics' = [m \in Range(MetricNames) |-> 0]
    /\ inter_metrics' = [m \in Range(MetricNames) |-> 0]
    /\ metrics' = <<>>
    /\ reliability_analyses' = NoAnalyses
    /\ UNCHANGED <<selected_intra_ids, selected_inter_ids,
                   selected_intra_metrics, selected_inter_metrics, start_log>>
    /\ UNCHANGED <<storeVars, mode, formatted_text, windows>>

\* SpecApp: the main screen with its profile prompt and the way to a rating
NextApp ==
    \/ PromptStart
    \/ PromptClose
    \/ StartMode
    \/ ScaleNext
    \/ SelectFile
    \/ LabelText
    \/ NextCmd
    \/ PrevCmd
    \/ HomeCmd

SpecApp == InitApp /\ [][NextApp]_vars

\* ------------------------------------------------------------------------
\* The Analyse screen (gui/analyseframe.py)
\* ------------------------------------------------------------------------
\* a Checkbutton of the rater table: the IntVar of one id is flipped
CheckId ==
    /\ UNCHANGED <<docVars, fileVars>>
    /\ frame = "AnalyseFrame"
    /\ \E kind \in {"intra", "inter"}, id \in DOMAIN intra_ids :
          IF kind = "intra"
          THEN /\ intra_ids' = [intra_ids EXCEPT ![id] = 1 - @]
               /\ UNCHANGED inter_ids
          ELSE /\ inter_ids' = [inter_ids EXCEPT ![id] = 1 - @]
               /\ UNCHANGED intra_ids
    /\ dialog' = "" /\ callback_error' = ""
    /\ UNCHANGED <<storeVars, navVars, prompts, windows, rateVars, intra_metrics,
                   inter_metrics, metrics, selected_intra_ids, selected_inter_ids,
                   selected_intra_metrics, selected_inter_metrics,
                   reliability_analyses, start_log>>

\* a Checkbutton of the metrics table
CheckMetric ==
    /\ UNCHANGED <<docVars, fileVars>>
    /\ frame = "AnalyseFrame"
    /\ \E kind \in {"intra", "inter"}, metric \in Range(metrics) :
          IF kind = "intra"
          THEN /\ intra_metrics' = [intra_metrics EXCEPT ![metric] = 1 - @]
               /\ UNCHANGED inter_metrics
          ELSE /\ inter_metrics' = [inter_metrics EXCEPT ![metric] = 1 - @]
               /\ UNCHANGED intra_metrics
    /\ dialog' = "" /\ callback_error' = ""
    /\ UNCHANGED <<storeVars, navVars, prompts, windows, rateVars, intra_ids,
                   inter_ids, metrics, selected_intra_ids, selected_inter_ids,
                   selected_intra_metrics, selected_inter_metrics,
                   reliability_analyses, start_log>>

\* AnalyseFrame.toggle on the dicts intra_dic and inter_dic, of which the
\* keys in shown are displayed: all off when every displayed one is on,
\* otherwise every displayed one on
toggle(intra_dic, inter_dic, shown) ==
    LET all_set == /\ \A i \in DOMAIN intra_dic \cap shown : intra_dic[i] # 0
                   /\ \A i \in DOMAIN inter_dic \cap shown : inter_dic[i] # 0
        set(dic) == IF all_set
                    THEN [i \in DOMAIN dic |-> 0]
                    ELSE [i \in DOMAIN dic |-> IF i \in shown THEN 1 ELSE dic[i]]
    IN  [intra |-> set(intra_dic), inter |-> set(inter_dic)]

\* the two "Alle auswaehlen" buttons: toggle("id") and toggle("metric")
Toggle ==
    /\ UNCHANGED <<docVars, fileVars>>
    /\ frame = "AnalyseFrame"
    /\ \E which \in {"id", "metric"} :
          IF which = "id"
          THEN /\ intra_ids' = toggle(intra_ids, inter_ids, DOMAIN intra_ids).intra
               /\ inter_ids' = toggle(intra_ids, inter_ids, DOMAIN inter_ids).inter
               /\ UNCHANGED <<intra_metrics, inter_metrics>>
          ELSE /\ intra_metrics' = toggle(intra_metrics, inter_metrics, Range(metrics)).intra
               /\ inter_metrics' = toggle(intra_metrics, inter_metrics, Range(metrics)).inter
               /\ UNCHANGED <<intra_ids, inter_ids>>
    /\ dialog' = "" /\ callback_error' = ""
    /\ UNCHANGED <<storeVars, navVars, prompts, windows, rateVars, metrics,
                   selected_intra_ids, selected_inter_ids, selected_intra_metrics,
                   selected_inter_metrics, reliability_analyses, start_log>>

\* the keys of a dict of IntVars over 1..n, in insertion order
Keys(dic) == [i \in 1..Cardinality(DOMAIN dic) |-> i]

\* the loops at the head of analyse_start: every key of dic whose IntVar is
\* 1 and that is not yet in selected is appended to selected
commit(selected, dic, keys) ==
    LET on(k) == dic[k] = 1 /\ k \notin Range(selected)
    IN  selected \o SelectSeq(keys, on)

\* CreateAnalyses.__init__: the lists it is given and the analyses it runs
CreateAnalyses(intra_id_list, inter_id_list, intra_m, inter_m) ==
    [made |-> TRUE,
     intra_id_list |-> intra_id_list, inter_id_list |-> inter_id_list,
     intra_metrics |-> intra_m, inter_metrics |-> inter_m,
     intra |-> intra_id_list # <<>> /\ intra_m # <<>>,
     inter |-> inter_id_list # <<>> /\ inter_m # <<>>]

\* analyse_start without its test for a single inter rater id
no_inter_check(inter_i) == FALSE

\* the first test of analyse_start on the committed inter rater ids
only_one_inter_id(inter_i) == Len(inter_i) = 1

\* the error box of the three rejections of analyse_start
InvalidInput == "Ungueltige Eingabe"

\* AnalyseFrame.analyse_start, the "Analyse Starten" button
AnalyseStart ==
    /\ UNCHANGED <<docVars, fileVars>>
    /\ frame = "AnalyseFrame"
    /\ LET intra_m == commit(selected_intra_metrics, intra_metrics, MetricNames)
           inter_m == commit(selected_inter_metrics, inter_metrics, MetricNames)
           intra_i == commit(selected_intra_ids, intra_ids, Keys(intra_ids))
           inter_i == commit(selected_inter_ids, inter_ids, Keys(inter_ids))
       IN  IF only_one_inter_id(inter_i)
           THEN /\ dialog' = InvalidInput
                /\ selected_intra_metrics' = <<>> /\ selected_inter_metrics' = <<>>
                /\ selected_intra_ids' = <<>> /\ selected_inter_ids' = <<>>
                /\ UNCHANGED <<frame, reliability_analyses>>
           ELSE IF Len(inter_i) = 0 /\ Len(inter_i) = 0
           THEN /\ dialog' = InvalidInput
                /\ selected_intra_metrics' = <<>> /\ selected_inter_metrics' = <<>>
                /\ selected_intra_ids' = intra_i /\ selected_inter_ids' = inter_i
                /\ UNCHANGED <<frame, reliability_analyses>>
           ELSE IF Len(intra_m) = 0 /\ Len(inter_m) = 0
           THEN /\ dialog' = InvalidInput
                /\ selected_intra_metrics' = intra_m /\ selected_inter_metrics' = inter_m
                /\ selected_intra_ids' = <<>> /\ selected_inter_ids' = <<>>
                /\ UNCHANGED <<frame, reliability_analyses>>
           ELSE \* ResultsFrame.update_frame and show_frame("ResultsFrame")
                /\ dialog' = ""
                /\ selected_intra_metrics' = intra_m /\ selected_inter_metrics' = inter_m
                /\ selected_intra_ids' = intra_i /\ selected_inter_ids' = inter_i
                /\ reliability_analyses' = CreateAnalyses(intra_i, inter_i, intra_m, inter_m)
                /\ frame' = "ResultsFrame"
    /\ start_log' = IF frame' = "ResultsFrame"
                    THEN [start_log EXCEPT !.accepted = TRUE]
                    ELSE [start_log EXCEPT !.rejected = TRUE]
    /\ callback_error' = ""
    /\ UNCHANGED <<storeVars, mode, formatted_text, prompts, windows, rateVars,
                   intra_ids, inter_ids, intra_metrics, inter_metrics, metrics>>

\* SpecAnalyse: a session from the main screen on with every action of the
\* Analyse screen
NextAnalyse ==
    \/ StartMode
    \/ ScaleNext
    \/ SelectFile
    \/ CheckId
    \/ CheckMetric
    \/ Toggle
    \/ AnalyseStart
    \/ HomeCmd

SpecAnalyse == InitApp /\ [][NextAnalyse]_vars

\* SpecRate: a session from the main screen on with every action of the
\* Rate screen
NextRate ==
    \/ StartMode
    \/ ScaleNext
    \/ SelectFile
    \/ LabelText
    \/ NextCmd
    \/ PrevCmd
    \/ DoubleClick
    \/ SaveMenu
    \/ DeleteCmd
    \/ HomeCmd

SpecRate == InitApp /\ [][NextRate]_vars

\* ------------------------------------------------------------------------
\* Claims about the main screen (SpecApp)
\* ------------------------------------------------------------------------
\* C10: while no active profile exists the profile prompt blocks every
\* other action: the session mode is not set and the Scale screen is not
\* shown until create_profile has been called with a non-empty name, so no
\* rating is ever recorded under an empty profile name.
C10_PromptBlocks ==
    /\ active_profile = "" => mode = "none" /\ frame = "MainFrame"
    /\ \A i \in DOMAIN ratings : ratings[i] # <<>> => ratings[i][1] # ""

\* ------------------------------------------------------------------------
\* Claims about the Rate screen (SpecRate)
\* ------------------------------------------------------------------------
\* the rating the lists t (subjects) and r (ratings) hold for subject s
RatingOf(t, r, s) == r[IndexOf(t, s)]

C12_SaveOrder ==
    saved.written =>
        \A i \in DOMAIN formatted_text :
            /\ i \in DOMAIN saved.ratings
            /\ saved.ratings[i] = RatingOf(saved.text, saved.ratings, formatted_text[i])

\* every subject of the lists t and r has a rating
AllRated(t, r) == \A i \in DOMAIN t : r[i] # <<>>

\* C13: label_text shows the save prompt of labeling_finished exactly when
\* it gives the last unrated subject a rating: each time that happens, and
\* never while a subject is unrated, whatever ratings, toggle-offs,
\* navigation and Discards came before.
C13_FinishedPrompt ==
    [][LabelText =>
        ((dialog' = "Glueckwunsch")
            <=> (AllRated(text', ratings') /\ ~AllRated(text, ratings)))
    ]_vars

\* ------------------------------------------------------------------------
\* Claims about the Analyse screen (SpecAnalyse)
\* ------------------------------------------------------------------------
\* the keys of a dict of IntVars whose IntVar is 1
ToggledOn(dic) == {k \in DOMAIN dic : dic[k] = 1}

\* C14: a Start analysis whose committed inter rater id list has exactly
\* one entry shows the error box, stays on the Analyse screen and leaves
\* the four committed selection lists empty, so the Results screen never
\* computes an analysis with exactly one inter rater id.
C14_OneInterId ==
    [][AnalyseStart =>
        /\ Len(commit(selected_inter_ids, inter_ids, Keys(inter_ids))) = 1
              => /\ dialog' = InvalidInput
                 /\ frame' = "AnalyseFrame"
                 /\ selected_intra_ids' = <<>> /\ selected_inter_ids' = <<>>
                 /\ selected_intra_metrics' = <<>> /\ selected_inter_metrics' = <<>>
                 /\ UNCHANGED reliability_analyses
        /\ frame' = "ResultsFrame"
              => /\ reliability_analyses'.made
                 /\ Len(reliability_analyses'.inter_id_list) # 1
    ]_vars

\* a Start with one inter rater id, an intra rater id and both metrics
\* toggled on was rejected and emptied the lists
C14_Witness ==
    /\ frame = "AnalyseFrame"
    /\ dialog = InvalidInput
    /\ Cardinality(ToggledOn(inter_ids)) = 1
    /\ ToggledOn(intra_ids) # {}
    /\ ToggledOn(intra_metrics) # {} /\ ToggledOn(inter_metrics) # {}
    /\ selected_intra_ids = <<>> /\ selected_inter_ids = <<>>
    /\ selected_intra_metrics = <<>> /\ selected_inter_metrics = <<>>

\* C15: a Start analysis with no inter rater id, at least one intra rater
\* id and at least one intra metric toggled on is accepted: the Results
\* screen is shown and the intra-rater analysis runs.
C15_IntraOnly ==
    [][(/\ AnalyseStart
        /\ ToggledOn(inter_ids) = {}
        /\ ToggledOn(intra_ids) # {}
        /\ ToggledOn(intra_metrics) # {})
       => /\ frame' = "ResultsFrame"
          /\ reliability_analyses'.intra
    ]_vars

\* C16: when a Start analysis was rejected (and none accepted before), the
\* next accepted Start hands CreateAnalyses exactly the rater ids and the
\* metrics that are toggled on at that moment.
C16_CleanRetry ==
    [][(/\ AnalyseStart
        /\ start_log.rejected /\ ~start_log.accepted
        /\ frame' = "ResultsFrame")
       => /\ Range(reliability_analyses'.intra_id_list) = ToggledOn(intra_ids)
          /\ Range(reliability_analyses'.inter_id_list) = ToggledOn(inter_ids)
          /\ Range(reliability_analyses'.intra_metrics) = ToggledOn(intra_metrics)
          /\ Range(reliability_analyses'.inter_metrics) = ToggledOn(inter_metrics)
    ]_vars

\* C24: in every state of the Rate screen the ratings list has exactly one
\* entry per subject, in the order of the displayed subject list, and each
\* entry is either empty or a (profile, value) pair.
C24_RatingsParallel ==
    frame = "RateFrame" =>
        /\ Len(ratings) = Len(text)
        /\ \A i \in DOMAIN ratings :
              \/ ratings[i] = <<>>
              \/ /\ Len(ratings[i]) = 2
                 /\ ratings[i][2] \in Categories

\* C25: in every state of the Rate screen total_ratings is the number of
\* subjects whose rating is not empty; after a confirmed discard it is 0.
C25_RatedCounter ==
    frame = "RateFrame" =>
        total_ratings = Cardinality({i \in DOMAIN ratings : ratings[i] # <<>>})

\* ========================================================================
\* The documentation generator (prout.py)
\* ========================================================================
\* A text is a sequence of characters.  The characters of the model are the
\* blank, the line break, the triple quote, the code fence and words (a
\* keyword, a name, a word of documentation); each counts as one column.
SP == " "
NL == "\n"
Q == "<triple quote>"
FENCE == "<code fence>"

IsSpace(c) == c \in {SP, NL}          \* what \s and str.strip() match
IsWord(c) == c \notin {SP, NL, Q, FENCE}   \* what \w matches

SetMin(S) == CHOOSE x \in S : \A y \in S : x <= y
SetMax(S) == CHOOSE x \in S : \A y \in S : x >= y

\* index of the first i >= from with s[i] = c, 0 when there is none
Find(s, c, from) ==
    LET hits == {i \in from..Len(s) : s[i] = c}
    IN  IF hits = {} THEN 0 ELSE SetMin(hits)

\* str.strip()
strip(s) ==
    LET solid == {i \in DOMAIN s : ~IsSpace(s[i])}
    IN  IF solid = {} THEN <<>> ELSE SubSeq(s, SetMin(solid), SetMax(solid))

\* re.split(r'\r?\n', s): the lines of s; a text ending in a line break
\* has an empty last line
RECURSIVE split(_)
split(s) ==
    LET i == Find(s, NL, 1)
    IN  IF i = 0 THEN <<s>>
        ELSE <<SubSeq(s, 1, i - 1)>> \o split(SubSeq(s, i + 1, Len(s)))

\* str.splitlines(): as split, without the empty last line
splitlines(s) ==
    LET parts == split(s)
    IN  IF parts[Len(parts)] = <<>> THEN SubSeq(parts, 1, Len(parts) - 1) ELSE parts

\* sep.join(lines)
RECURSIVE join(_, _)
join(lines, sep) ==
    IF lines = <<>> THEN <<>>
    ELSE IF Len(lines) = 1 THEN lines[1]
    ELSE lines[1] \o sep \o join(Tail(lines), sep)

\* _stringify: every line followed by a line break
RECURSIVE stringify(_)
stringify(lines) ==
    IF lines = <<>> THEN <<>> ELSE lines[1] \o <<NL>> \o stringify(Tail(lines))

\* the loop of _ident_docs over the stripped parts
RECURSIVE ident_parts(_, _, _)
ident_parts(parts, res, left) ==
    IF parts = <<>> THEN res
    ELSE ident_parts(Tail(parts),
                     IF res # <<>> THEN res \o <<NL>> \o left \o parts[1] ELSE parts[1],
                     left)

\* _ident_docs: the lines of doc stripped, each but the first behind `left`
ident_docs(doc, left) ==
    LET parts == splitlines(doc)
    IN  ident_parts([i \in DOMAIN parts |-> strip(parts[i])], <<>>, left)

unwrap_docs(t) ==
    LET test == strip(t)
    IN  IF Len(test) >= 1 /\ test[1] = Q /\ test[Len(test)] = Q
        THEN strip(SubSeq(test, 2, Len(test) - 1))
        ELSE t

\* where the block starts after the fence at o: behind the optional
\* (?:\w+\s+), a run of words followed by a run of white space
BlockStart(t, o) ==
    LET i == o + 1
        nonword == {j \in i..Len(t) : ~IsWord(t[j])}
        j == IF nonword = {} THEN Len(t) + 1 ELSE SetMin(nonword)
        nonspace == {k \in j..Len(t) : ~IsSpace(t[k])}
        k == IF nonspace = {} THEN Len(t) + 1 ELSE SetMin(nonspace)
    IN  IF j > i /\ j <= Len(t) /\ IsSpace(t[j]) THEN k ELSE i

\* re.findall of fence, (?:\w+\s+)?, (.*?), fence with re.DOTALL, from `from` on
RECURSIVE findall(_, _)
findall(t, from) ==
    LET o == Find(t, FENCE, from)
        start == BlockStart(t, o)
        c == Find(t, FENCE, start)
    IN  IF o = 0 \/ c = 0 THEN <<>>
        ELSE <<SubSeq(t, start, c - 1)>> \o findall(t, c + 1)

extract_md_blocks(t) ==
    LET matches == findall(t, 1)
        res == [i \in DOMAIN matches |-> unwrap_docs(strip(matches[i]))]
    IN  IF res = <<>>
        THEN (IF unwrap_docs(t) # <<>> THEN <<unwrap_docs(t)>> ELSE <<>>)
        ELSE res

\* ------------------------------------------------------------------------
\* ast.parse and MyNodeVisitor on the Python the generator meets: def and
\* class headers (the word "def" or "class" and a name stand for the whole
\* header up to its colon), string statements in triple quotes, which may
\* run over several lines, and other simple statements; a body is either
\* the indented statements after its header or the statement that follows
\* the header on the same line.
\* ------------------------------------------------------------------------
Stmt(line, col, kind, name, inner, inline, open) ==
    [line |-> line, col |-> col, kind |-> kind, name |-> name, inner |-> inner,
     inline |-> inline, open |-> open]

\* the simple statement made of toks, at lineno `line` and col_offset `col`
SimpleStmt(toks, line, col, inline) ==
    IF toks[1] = Q
    THEN LET c == Find(toks, Q, 2)
         IN  IF c = 0
             THEN Stmt(line, col, "str", "", Tail(toks), inline, TRUE)
             ELSE Stmt(line, col, "str", "", SubSeq(toks, 2, c - 1), inline, FALSE)
    ELSE Stmt(line, col, "stmt", "", <<>>, inline, FALSE)

\* the statements that start on line number `line`, which is the text l
LineStmts(l, line) ==
    LET solid == {i \in DOMAIN l : l[i] # SP}
        indent == IF solid = {} THEN Len(l) ELSE SetMin(solid) - 1
        rest == SubSeq(l, indent + 1, Len(l))
    IN  IF rest = <<>> THEN <<>>
        ELSE IF rest[1] \in {"def", "class"} /\ Len(rest) >= 2
        THEN <<Stmt(line, indent, rest[1], rest[2], <<>>, FALSE, FALSE)>>
             \o (IF Len(rest) > 2
                 THEN <<SimpleStmt(SubSeq(rest, 3, Len(rest)), line, indent + 2, TRUE)>>
                 ELSE <<>>)
        ELSE <<SimpleStmt(rest, line, indent, FALSE)>>

\* the statements of the lines from number i on, after the statements acc;
\* while the last of acc is an open string the lines belong to it
RECURSIVE Statements(_, _, _)
Statements(lines, i, acc) ==
    IF i > Len(lines) THEN acc
    ELSE IF acc # <<>> /\ acc[Len(acc)].open
    THEN LET s == acc[Len(acc)]
             c == Find(lines[i], Q, 1)
             more == IF c = 0 THEN lines[i] ELSE SubSeq(lines[i], 1, c - 1)
         IN  Statements(lines, i + 1,
                 [acc EXCEPT ![Len(acc)] =
                     [s EXCEPT !.inner = s.inner \o <<NL>> \o more, !.open = (c = 0)]])
    ELSE Statements(lines, i + 1, acc \o LineStmts(lines[i], i))

\* the statement whose block statement i is in: 0 for the module
Enclosing(S, i) ==
    IF S[i].inline THEN i - 1
    ELSE LET outer == {j \in 1..(i - 1) : ~S[j].inline /\ S[j].col < S[i].col}
         IN  IF outer = {} THEN 0 ELSE SetMax(outer)

\* ast.get_docstring: the cleaned text of a first statement that is a string
get_docstring(S, first) ==
    IF first \in DOMAIN S /\ S[first].kind = "str" THEN strip(S[first].inner) ELSE <<>>

Elem(name, kind, doc, parent, node_line, node_col) ==
    [name |-> name, kind |-> kind, doc |-> doc, parent |-> parent,
     node_line |-> node_line, node_col |-> node_col]

\* The elements MyNodeVisitor builds from the text: element 1 is the module,
\* the others the def and class statements in source order; parent is the
\* element's index of the container, 0 for the module.
parse(content) ==
    LET S == Statements(split(content), 1, <<>>)
        headers == {i \in DOMAIN S : S[i].kind \in {"def", "class"}}
        ElemOf(i) == IF i = 0 THEN 1 ELSE 1 + Cardinality({h \in headers : h <= i})
        StmtOf(k) == CHOOSE h \in headers : ElemOf(h) = k
    IN  [k \in 1..(1 + Cardinality(headers)) |->
            IF k = 1
            THEN Elem("module", "module", get_docstring(S, 1), 0, 1, 1)
            ELSE LET h == StmtOf(k)
                 IN  Elem(S[h].name,
                          IF S[h].kind = "def" THEN "function" ELSE "class",
                          get_docstring(S, h + 1),
                          ElemOf(Enclosing(S, h)),
                          S[h + 1].line, S[h + 1].col)]

\* Elem.get_id: the names from the module down (joined with "." in the code)
RECURSIVE get_id(_, _)
get_id(E, k) ==
    IF E[k].parent = 0 THEN <<E[k].name>> ELSE get_id(E, E[k].parent) \o <<E[k].name>>

\* ClassElem.constructor: the last __init__ visited directly in the class
constructor(E, k) ==
    LET inits == {c \in DOMAIN E : /\ E[c].parent = k /\ E[c].kind = "function"
                                   /\ E[c].name = "__init__"}
    IN  IF E[k].kind = "class" /\ inits # {} THEN SetMax(inits) ELSE 0

\* Container.children in source order; a class keeps its __init__ apart
children(E, k) ==
    LET kids == {c \in DOMAIN E : /\ E[c].parent = k
                                  /\ ~(E[k].kind = "class" /\ E[c].kind = "function"
                                       /\ E[c].name = "__init__")}
    IN  [i \in 1..Cardinality(kids) |->
            CHOOSE c \in kids : Cardinality({d \in kids : d <= c}) = i]

\* _pick without the test of visited_nodes
RECURSIVE pick_again(_, _, _)
pick_again(E, k, visited) ==
    IF k = 0 THEN 0
    ELSE IF children(E, k) # <<>>
    THEN pick_again(E, children(E, k)[Len(children(E, k))], visited)
    ELSE IF constructor(E, k) # 0 THEN pick_again(E, constructor(E, k), visited)
    ELSE k

\* _pick: the element to treat next, 0 for None
RECURSIVE pick(_, _, _)
RECURSIVE pick_reversed(_, _, _, _)
pick_reversed(E, kids, i, visited) ==
    IF i = 0 THEN 0
    ELSE LET res == pick(E, kids[i], visited)
         IN  IF res # 0 THEN res ELSE pick_reversed(E, kids, i - 1, visited)

pick(E, k, visited) ==
    IF k = 0 \/ get_id(E, k) \in visited THEN 0
    ELSE LET below == pick_reversed(E, children(E, k), Len(children(E, k)), visited)
             ctor == pick(E, constructor(E, k), visited)
         IN  IF below # 0 THEN below
             ELSE IF ctor # 0 THEN ctor
             ELSE k

\* the new_content _add_doc builds for the documentation text doc
splice(doc, E, k, file_content) ==
    LET lines == split(file_content)
        line == E[k].node_line - 1
        col == E[k].node_col - 1
        left == SubSeq(lines[line + 1], 1, col + 1)
    IN  IF E[k].kind = "module"
        THEN <<Q>> \o ident_docs(doc, <<>>) \o <<NL, Q, NL, NL, NL>> \o file_content
        ELSE stringify(SubSeq(lines, 1, line)) \o left
             \o <<Q>> \o ident_docs(doc, left) \o <<NL>> \o left \o <<Q, NL>>
             \o SubSeq(lines[line + 1], 1, col)
             \o SubSeq(lines[line + 1], col + 1, Len(lines[line + 1]))
             \o <<NL>> \o stringify(SubSeq(lines, line + 2, Len(lines)))

\* _add_doc without its test of len(blocs) > 1: the first block is spliced
add_doc_first_bloc(doc, E, k, file_content) ==
    LET blocs == extract_md_blocks(doc)
    IN  [raised |-> "",
         new_content |-> splice(IF blocs # <<>> THEN blocs[1] ELSE doc, E, k, file_content)]

\* _add_doc up to the write: the exception it raises ("" = none) and the
\* content it writes
add_doc(doc, E, k, file_content) ==
    LET blocs == extract_md_blocks(doc)
    IN  IF Len(blocs) > 1
        THEN [raised |-> "Too many blocs", new_content |-> file_content]
        ELSE [raised |-> "",
              new_content |-> splice(IF blocs # <<>> THEN blocs[1] ELSE doc,
                                     E, k, file_content)]

\* ------------------------------------------------------------------------
\* The source tree and list_all_files
\* ------------------------------------------------------------------------
File(stem, ext) == [stem |-> stem, ext |-> ext]
InitPy == File("__init__", ".py")
ReadmeMd == File("README", ".md")

\* str.lower() on the extensions of the model
Lower(e) == IF e = ".PY" THEN ".py" ELSE e
IsSource(f) == Lower(f.ext) \in {".py"}

Dir(path, files, folders) == [path |-> path, files |-> files, folders |-> folders]

\* list_all_files: one group per directory that holds source files, the
\* directory before its subfolders, __init__.py moved to the end
RECURSIVE list_all_files(_)
RECURSIVE list_subfolders(_)
list_subfolders(folders) ==
    IF folders = <<>> THEN <<>>
    ELSE list_all_files(folders[1]) \o list_subfolders(Tail(folders))

\* list_all_files that leaves __init__.py where scandir has it
list_all_files_unmoved(dir) ==
    LET files == SelectSeq(dir.files, IsSource)
    IN  (IF files # <<>> THEN <<[files |-> files, path |-> dir.path]>> ELSE <<>>)
        \o list_subfolders(dir.folders)

list_all_files(dir) ==
    LET files == SelectSeq(dir.files, IsSource)
        idx == IndexOf(files, InitPy)
        moved == IF idx > 0
                 THEN SubSeq(files, 1, idx - 1) \o SubSeq(files, idx + 1, Len(files))
                      \o <<files[idx]>>
                 ELSE files
    IN  (IF files # <<>> THEN <<[files |-> moved, path |-> dir.path]>> ELSE <<>>)
        \o list_subfolders(dir.folders)

\* ------------------------------------------------------------------------
\* The trees the generator is run on and the replies of the LLM
\* ------------------------------------------------------------------------
MaxDocLines == 2      \* lines of documentation in one fenced block of a reply
MaxBlocks == 2        \* fenced blocks in one reply

\* document_files('./resources')
RootPath == <<"resources">>

\* one source line: indentation, the words, the line break
Ln(indent, toks) == [i \in 1..indent |-> SP] \o toks \o <<NL>>

DocString == <<Q, "D", Q>>
SrcFunction == Ln(0, <<"def", "f">>) \o Ln(1, <<"pass">>)
SrcTwice == SrcFunction \o SrcFunction
SrcClass ==
    Ln(0, <<"class", "A">>) \o Ln(1, <<"def", "__init__">>) \o Ln(2, <<"pass">>)
    \o Ln(1, <<"def", "m">>) \o Ln(2, <<"pass">>)
SrcNested ==
    Ln(0, <<"def", "g">>) \o Ln(1, <<"def", "inner">>) \o Ln(2, <<"pass">>)
    \o Ln(1, <<"pass">>)
SrcDocumented ==
    Ln(0, DocString) \o Ln(0, <<"def", "f">>) \o Ln(1, DocString) \o Ln(1, <<"pass">>)
    \o Ln(0, <<"class", "A">>) \o Ln(1, DocString)
    \o Ln(1, <<"def", "__init__">>) \o Ln(2, DocString)
SrcPartly ==
    Ln(0, <<"def", "f">>) \o Ln(1, DocString) \o Ln(1, <<"pass">>)
    \o Ln(0, <<"def", "g">>) \o Ln(1, <<"pass">>)
SrcOneLine == Ln(0, <<"def", "f", "pass">>)
SrcShadowed ==
    Ln(0, <<"def", "f">>) \o Ln(1, <<"def", "inner">>) \o Ln(2, <<"pass">>)
    \o Ln(0, <<"def", "f">>) \o Ln(1, <<"pass">>)
SrcNoLineBreak == Ln(0, <<"def", "f">>) \o <<SP, "pass">>

TreeA ==
    [root |-> Dir(RootPath, <<File("b", ".py"), InitPy, File("a", ".py")>>, <<>>),
     contents |-> (<<RootPath, File("a", ".py")>> :> SrcFunction)
                  @@ (<<RootPath, InitPy>> :> <<>>)
                  @@ (<<RootPath, File("b", ".py")>> :> SrcTwice)]
TreeB ==
    [root |-> Dir(RootPath, <<File("notes", ".txt")>>,
                  <<Dir(RootPath \o <<"core">>, <<File("c", ".PY")>>, <<>>),
                    Dir(RootPath \o <<"gui">>, <<InitPy, File("n", ".py")>>, <<>>)>>),
     contents |-> (<<RootPath, File("notes", ".txt")>> :> <<"D">>)
                  @@ (<<RootPath \o <<"core">>, File("c", ".PY")>> :> SrcClass)
                  @@ (<<RootPath \o <<"gui">>, InitPy>> :> <<>>)
                  @@ (<<RootPath \o <<"gui">>, File("n", ".py")>> :> SrcNested)]
TreeC ==
    [root |-> Dir(RootPath, <<File("d", ".py"), File("e", ".py")>>, <<>>),
     contents |-> (<<RootPath, File("d", ".py")>> :> SrcDocumented)
                  @@ (<<RootPath, File("e", ".py")>> :> SrcPartly)]
TreeD ==
    [root |-> Dir(RootPath, <<File("o", ".py"), File("p", ".py")>>, <<>>),
     contents |-> (<<RootPath, File("o", ".py")>> :> SrcNoLineBreak)
                  @@ (<<RootPath, File("p", ".py")>> :> SrcOneLine)]
TreeE ==
    [root |-> Dir(RootPath, <<File("s", ".py")>>, <<>>),
     contents |-> (<<RootPath, File("s", ".py")>> :> SrcShadowed)]
Trees == {TreeA, TreeB, TreeC, TreeD, TreeE}

\* What the LLM answers: documentation of n lines in a fenced block, several
\* fenced blocks, a block with a language tag around a quoted text, plain
\* text, nothing.
DocText(n) == join([i \in 1..n |-> IF i = 1 THEN <<"D">> ELSE <<SP, "E">>], <<NL>>)
Fenced(n) == <<FENCE, NL>> \o DocText(n) \o <<NL, FENCE>>
Blocks(n) == join([i \in 1..n |-> Fenced(1)], <<NL>>)
Tagged == <<FENCE, "python", NL, Q>> \o DocText(1) \o <<NL, Q, NL, FENCE>>
Replies ==
    {Fenced(n) : n \in 1..MaxDocLines} \cup {Blocks(n) : n \in 2..MaxBlocks}
    \cup {Tagged, <<"D", SP, "E">>, <<>>}

\* ------------------------------------------------------------------------
\* document_files
\* ------------------------------------------------------------------------
\* dict.get(k) on a dict kept as its items in insertion order; <<>> for None
DictGet(d, k) ==
    IF \E i \in DOMAIN d : d[i][1] = k
    THEN d[CHOOSE i \in DOMAIN d : d[i][1] = k][2]
    ELSE <<>>

\* d[k] = v
DictSet(d, k, v) ==
    IF \E i \in DOMAIN d : d[i][1] = k
    THEN [i \in DOMAIN d |-> IF d[i][1] = k THEN <<k, v>> ELSE d[i]]
    ELSE Append(d, <<k, v>>)

\* the items whose value is not empty: [... for k, v in d.items() if v]
Documented(d) == SelectSeq(d, LAMBDA item : item[2] # <<>>)

\* for filename in package.files: if treated_files.get(filename): continue
\* the index of the next file to treat from index `from` on
NextFile(files, from, treated) ==
    LET todo == {i \in from..Len(files) : DictGet(treated, files[i]) = <<>>}
    IN  IF todo = {} THEN Len(files) + 1 ELSE SetMin(todo)

\* the file of the running loop, its content as read, its elements and the
\* element _pick returns
filename == packages[pkg_idx].files[file_idx]
file == <<packages[pkg_idx].path, filename>>
file_content == join(split(fs[file]), <<NL>>)
visitor == parse(file_content)
to_document == pick(visitor, 1, visited_nodes)

\* a loop without the test of to_document.doc
never_documented(E, k) == FALSE

\* if to_document.doc: continue
already_documented(E, k) == E[k].doc # <<>>

\* the prompt the dispatch on the element's type loads, "" for none
prompt_of(E, k, name) ==
    IF E[k].kind = "function"
    THEN IF E[E[k].parent].kind = "class"
         THEN IF k = constructor(E, E[k].parent)
              THEN "class_constructor_prompt.json"
              ELSE "class_method_prompt.json"
         ELSE "method_prompt.json"
    ELSE IF E[k].kind = "class" THEN "class_prompt.json"
    ELSE IF name = InitPy THEN "package_prompt.json"
    ELSE IF Len(children(E, 1)) > 1 THEN "module_prompt.json"
    ELSE ""

Iter(step, f, id, kind, had_doc, reply) ==
    [step |-> step, file |-> f, id |-> id, kind |-> kind, had_doc |-> had_doc,
     reply |-> reply, fs_before |-> fs, good |-> file_hist.good]

\* visited_nodes and the history of the loop when the loop of a file starts
StartFile(content) ==
    /\ visited_nodes' = {}
    /\ file_hist' = [start |-> content, good |-> TRUE]

\* The run starts: the first group of list_all_files, its first file.
InitDoc ==
    /\ \E tree \in Trees :
          /\ packages = list_all_files(tree.root)
          /\ fs = tree.contents
          /\ pc = (IF packages = <<>> THEN "readme" ELSE "loop")
          /\ pkg_idx = (IF packages = <<>> THEN 0 ELSE 1)
          /\ file_idx = (IF packages = <<>> THEN 0 ELSE 1)
          /\ file_hist = [start |-> IF packages = <<>> THEN <<>>
                                    ELSE fs[<<packages[1].path, packages[1].files[1]>>],
                          good |-> TRUE]
    /\ visited_nodes = {} /\ treated_files = <<>> /\ treated_package = <<>>
    /\ llm_calls = <<>> /\ writes = <<>>
    /\ last_iter = [step |-> "none"]
    /\ active_profile = "" /\ profiles = <<>> /\ db_file = to_csv(<<>>)
    /\ last_call = NoCall /\ all_ok = TRUE
    /\ GuiIdle
    /\ FileIdle

\* An iteration that picks the element k of E, which has documentation:
\* continue.
SkipDocumented ==
    /\ pc = "loop"
    /\ LET skip(E, k) ==
               /\ k # 0
               /\ already_documented(E, k)
               /\ visited_nodes' = visited_nodes \cup {get_id(E, k)}
               /\ last_iter' = Iter("skip", file, get_id(E, k), E[k].kind, TRUE, <<>>)
       IN  skip(visitor, to_document)
    /\ UNCHANGED <<packages, fs, pc, pkg_idx, file_idx, treated_files, treated_package,
                   llm_calls, writes, file_hist, storeVars, guiVars, fileVars>>

\* An iteration that picks the module of a file other than __init__.py with
\* at most one child: no branch of the dispatch applies.
LeaveModule ==
    /\ pc = "loop"
    /\ LET leave(E, k) ==
               /\ k # 0
               /\ ~already_documented(E, k)
               /\ prompt_of(E, k, filename) = ""
               /\ visited_nodes' = visited_nodes \cup {get_id(E, k)}
               /\ last_iter' = Iter("leave", file, get_id(E, k), E[k].kind,
                                    E[k].doc # <<>>, <<>>)
       IN  leave(visitor, to_document)
    /\ UNCHANGED <<packages, fs, pc, pkg_idx, file_idx, treated_files, treated_package,
                   llm_calls, writes, file_hist, storeVars, guiVars, fileVars>>

\* An iteration that picks an element without documentation: the chain is
\* invoked and _add_doc splices the reply into the file, or raises.
Document ==
    /\ pc = "loop"
    /\ LET document(E, k, content, reply) ==
               LET id == get_id(E, k)
                   res == add_doc(reply, E, k, content)
                   blocs == extract_md_blocks(reply)
                   useful == Len(blocs) = 1 /\ ident_docs(blocs[1], <<>>) # <<>>
               IN  /\ visited_nodes' = visited_nodes \cup {id}
                   /\ llm_calls' = Append(llm_calls,
                         [prompt |-> prompt_of(E, k, filename), file |-> file, id |-> id,
                          context |-> IF E[k].kind = "module" /\ filename = InitPy
                                      THEN Documented(treated_files) ELSE <<>>])
                   /\ last_iter' = Iter("document", file, id, E[k].kind,
                                        E[k].doc # <<>>, reply)
                   /\ IF res.raised # ""
                      THEN /\ pc' = "failed"
                           /\ file_hist' = [file_hist EXCEPT !.good = FALSE]
                           /\ UNCHANGED <<fs, writes>>
                      ELSE /\ fs' = [fs EXCEPT ![file] = res.new_content]
                           /\ writes' = Append(writes, file)
                           /\ file_hist' = [file_hist EXCEPT !.good = @ /\ useful]
                           /\ pc' = pc
           guard(E, k) ==
               /\ k # 0
               /\ ~already_documented(E, k)
               /\ prompt_of(E, k, filename) # ""
       IN  /\ guard(visitor, to_document)
           /\ \E reply \in Replies :
                 document(visitor, to_document, file_content, reply)
    /\ UNCHANGED <<packages, pkg_idx, file_idx, treated_files, treated_package,
                   storeVars, guiVars, fileVars>>

\* The iteration in which _pick returns None: break, the file's entry in
\* treated_files, and the step of the two for loops to the next file, with
\* the entry in treated_package when the group is through.
FinishFile ==
    /\ pc = "loop"
    /\ to_document = 0
    /\ LET module_doc(E, kids) ==
               IF Len(kids) = 1 /\ filename # InitPy THEN E[kids[1]].doc ELSE E[1].doc
           finish(treated, files, next) ==
               IF next <= Len(files)
               THEN /\ treated_files' = treated
                    /\ file_idx' = next
                    /\ StartFile(fs[<<packages[pkg_idx].path, files[next]>>])
                    /\ UNCHANGED <<pc, pkg_idx, treated_package>>
               ELSE /\ treated_package' =
                          DictSet(treated_package,
                                  SubSeq(packages[pkg_idx].path, Len(RootPath) + 1,
                                         Len(packages[pkg_idx].path)),
                                  DictGet(treated, InitPy))
                    /\ treated_files' = <<>>
                    /\ IF pkg_idx < Len(packages)
                       THEN /\ pkg_idx' = pkg_idx + 1
                            /\ file_idx' = 1
                            /\ StartFile(fs[<<packages[pkg_idx + 1].path,
                                              packages[pkg_idx + 1].files[1]>>])
                            /\ pc' = pc
                       ELSE /\ pc' = "readme"
                            /\ UNCHANGED <<pkg_idx, file_idx, visited_nodes, file_hist>>
           step(treated) ==
               finish(treated, packages[pkg_idx].files,
                      NextFile(packages[pkg_idx].files, file_idx + 1, treated))
           break(E) ==
               step(DictSet(treated_files, filename, module_doc(E, children(E, 1))))
       IN  break(visitor)
    /\ last_iter' = Iter("finish", file, <<>>, "", FALSE, <<>>)
    /\ UNCHANGED <<packages, fs, llm_calls, writes, storeVars, guiVars, fileVars>>

\* After the last group: the readme chain and the write of README.md.
WriteReadme ==
    /\ pc = "readme"
    /\ \E reply \in Replies :
          /\ llm_calls' = Append(llm_calls,
                [prompt |-> "readme_prompt.json", file |-> <<RootPath, ReadmeMd>>,
                 id |-> <<>>, context |-> Documented(treated_package)])
          /\ fs' = (<<RootPath, ReadmeMd>> :> reply) @@ fs
          /\ writes' = Append(writes, <<RootPath, ReadmeMd>>)
          /\ last_iter' = Iter("readme", <<RootPath, ReadmeMd>>, <<>>, "", FALSE, reply)
    /\ pc' = "done"
    /\ UNCHANGED <<packages, pkg_idx, file_idx, visited_nodes, treated_files,
                   treated_package, file_hist, storeVars, guiVars, fileVars>>

NextDoc == SkipDocumented \/ LeaveModule \/ Document \/ FinishFile \/ WriteReadme

SpecDoc == InitDoc /\ [][NextDoc]_vars

\* document_files is between its first statement and its return
Running == pc \in {"loop", "readme"}

\* The run goes on: the loops are sequential code and every chain
\* invocation returns.  This is weak fairness of NextDoc, WF_vars(NextDoc),
\* with ENABLED <<NextDoc>>_vars written out: a step of NextDoc is possible
\* exactly while the run is Running.
FairSpecDoc == SpecDoc /\ ([]<>~Running \/ []<><<Running>>_vars)

\* ------------------------------------------------------------------------
\* Claims about the documentation generator
\* ------------------------------------------------------------------------
AllDocumented(E) == \A k \in DOMAIN E : E[k].doc # <<>>

CallsFor(f) == {i \in DOMAIN llm_calls : llm_calls[i].file = f}
WritesOf(f) == {i \in DOMAIN writes : writes[i] = f}

\* C1: an iteration of the per-file loop that selects an element which has
\* non-empty documentation makes no LLM call and writes no file; and while
\* the loop runs on a file in which every element (module, classes,
\* functions, constructors) had non-empty documentation when the loop
\* started, no LLM call has been made for that file and it has not been
\* written.
C1_DocumentedUntouched ==
    /\ [][ (pc = "loop" /\ to_document # 0 /\ visitor[to_document].doc # <<>>)
              => UNCHANGED <<fs, llm_calls, writes>> ]_vars
    /\ [](pc = "loop" /\ AllDocumented(parse(file_hist.start))
              => CallsFor(file) = {} /\ WritesOf(file) = {})

\* the loop of a file whose elements were all documented has visited every
\* element, the last one skipped, and is about to break
C1_Witness ==
    /\ pc = "loop"
    /\ AllDocumented(parse(file_hist.start))
    /\ Len(parse(file_hist.start)) > 1
    /\ last_iter.step = "skip"
    /\ to_document = 0

\* C2: when the loop of a file has finished and every reply for the file
\* gave exactly one non-empty documentation block, every class, function
\* and constructor of the file has non-empty documentation.
C2_EverythingDocumented ==
    (last_iter.step = "finish" /\ last_iter.good) =>
        LET E == parse(fs[last_iter.file])
        IN  \A k \in DOMAIN E : E[k].kind # "module" => E[k].doc # <<>>

\* C3: after _add_doc has spliced a documentation block for an element
\* that is not the module, the content of the file is the content before
\* with one text inserted at one place: what stood before the place and what
\* stood after it are unchanged.
C3_SpliceOnlyInserts ==
    (last_iter.step = "document" /\ last_iter.kind # "module" /\ pc # "failed") =>
        LET before == last_iter.fs_before[last_iter.file]
            after == fs[last_iter.file]
        IN  /\ Len(after) >= Len(before)
            /\ \E p \in 0..Len(before) :
                  /\ SubSeq(after, 1, p) = SubSeq(before, 1, p)
                  /\ SubSeq(after, Len(after) - (Len(before) - p) + 1, Len(after))
                         = SubSeq(before, p + 1, Len(before))

\* C4: when the reply for an element holds more than one fenced block the
\* run has failed and no file differs from what it was before the
\* iteration, the files written earlier included; after the failure no
\* step of the run is possible.
C4_TooManyBlocs ==
    /\ (last_iter.step = "document" /\ Len(findall(last_iter.reply, 1)) > 1)
          => pc = "failed" /\ fs = last_iter.fs_before
    /\ pc = "failed" => ~ENABLED NextDoc

\* a reply with several fenced blocks ended a run that had rewritten another
\* file before
C4_Witness ==
    /\ pc = "failed"
    /\ last_iter.step = "document"
    /\ Len(findall(last_iter.reply, 1)) > 1
    /\ \E k \in DOMAIN fs : k # last_iter.file /\ WritesOf(k) # {}

\* element d lies below element k
RECURSIVE IsBelow(_, _, _)
IsBelow(E, d, k) ==
    /\ E[d].parent # 0
    /\ (E[d].parent = k \/ IsBelow(E, E[d].parent, k))

\* the elements as parsed at the start of the last iteration, and the ids
\* selected in the loop of the file before it
PickedIn == parse(join(split(last_iter.fs_before[last_iter.file]), <<NL>>))
SelectedBefore == visited_nodes \ {last_iter.id}

\* C26: within one file the elements are selected in post-order, in
\* reverse order of declaration: an element is selected only after every
\* one of its descendants has been selected, siblings are selected
\* last-declared first, the constructor of a class after all other
\* children of the class and before the class, and the module last.
C26_PostOrder ==
    last_iter.step \in {"skip", "leave", "document"} =>
        LET order(E, k) ==
                /\ get_id(E, k) = last_iter.id
                /\ \A d \in DOMAIN E :
                      IsBelow(E, d, k) => get_id(E, d) \in SelectedBefore
                /\ \A sib \in DOMAIN E :
                      (/\ E[sib].parent = E[k].parent /\ sib # k
                       /\ (sib > k \/ k = constructor(E, E[k].parent))
                       /\ sib # constructor(E, E[k].parent))
                      => get_id(E, sib) \in SelectedBefore
                /\ (E[k].parent # 0 /\ k # constructor(E, E[k].parent)
                    /\ constructor(E, E[k].parent) # 0)
                      => get_id(E, constructor(E, E[k].parent)) \notin SelectedBefore
                /\ k = 1 => \A d \in DOMAIN E \ {1} : get_id(E, d) \in SelectedBefore
        IN  order(PickedIn, pick(PickedIn, 1, SelectedBefore))

\* the last chain invocation
LastCall == llm_calls[Len(llm_calls)]

\* the package prompt was invoked in the last iteration
PackagePrompted ==
    /\ last_iter.step = "document" /\ llm_calls # <<>>
    /\ LastCall.prompt = "package_prompt.json"

\* C27: __init__.py is processed after all other files of its package, so
\* when the package prompt is invoked every other file of the package has
\* finished its loop, and the context of the prompt holds, in processing
\* order, one entry for exactly those files of this package whose stored
\* documentation text is not empty, and nothing from other packages.
C27_PackageContext ==
    PackagePrompted =>
        LET files == packages[pkg_idx].files
            others == SubSeq(files, 1, Len(files) - 1)
        IN  /\ LastCall.file = <<packages[pkg_idx].path, InitPy>>
            /\ file_idx = Len(files) /\ files[file_idx] = InitPy
            /\ InitPy \notin Range(others)
            /\ [i \in DOMAIN treated_files |-> treated_files[i][1]] = others
            /\ LastCall.context
                  = SelectSeq(treated_files, LAMBDA item : item[2] # <<>>)
            /\ \A i \in DOMAIN LastCall.context :
                  /\ LastCall.context[i][1] \in Range(others)
                  /\ LastCall.context[i][2] # <<>>

\* the package prompt of a second package, after a file of the first one
\* was documented, with one file of its own in the context
C27_Witness ==
    /\ PackagePrompted
    /\ pkg_idx > 1
    /\ Len(LastCall.context) = 1
    /\ \E c \in Range(llm_calls) : c.file[1] # packages[pkg_idx].path

\* the distinct ids of the elements
DistinctIds(E) == {get_id(E, k) : k \in DOMAIN E}

lower(header) ==
    CASE header = "Rater ID" -> "rater id"
      [] header = "Subject" -> "subject"
      [] header = "Categories" -> "categories"
      [] header = "Q1" -> "q1"
      [] header = "Q2.1" -> "q2.1"
      [] header = "R1" -> "r1"
      [] OTHER -> header

\* FileValidation.nlp on the texts of the model: re.sub("\.[0-9]*$", "", text)
\* removes a trailing dot with digits
nlp(t) ==
    CASE t = "Q2.1" -> "Q2"
      [] t = "S2.1" -> "S2"
      [] OTHER -> t

\* pandas.isnull on a cell
isnull(item) == item = NaN

\* self.content[header] and self.content.loc[row, header]
HasColumn(content, header) == header \in Range(content.columns)
Cell(content, row, header) == content.rows[row][IndexOf(content.columns, header)]
Column(content, header) == [row \in DOMAIN content.rows |-> Cell(content, row, header)]

\* a list without the repeats of its items, in first-seen order:
\* "if item not in self.rater_ids: self.rater_ids.append(item)"
RECURSIVE unique(_)
unique(s) ==
    IF s = <<>> THEN <<>>
    ELSE LET front == unique(SubSeq(s, 1, Len(s) - 1))
         IN  IF s[Len(s)] \in Range(front) THEN front ELSE Append(front, s[Len(s)])

\* check_format: the first header that is "rater id" or "subject" in lower
\* case decides; "" stands for the ValueError
check_format(content) ==
    LET hits == {i \in DOMAIN content.columns :
                    lower(content.columns[i]) \in {"rater id", "subject"}}
    IN  IF hits = {} THEN ""
        ELSE IF lower(content.columns[SetMin(hits)]) = "rater id" THEN "Format 1"
        ELSE "Format 2"

Discrete(scale_format) == scale_format \in {"nominal", "ordinal"}

\* find_categories
find_categories(content) ==
    SelectSeq(Column(content, "Categories"), LAMBDA item : ~isnull(item))

\* all(self.content[header].isin(self.categories) | self.content[header].isnull())
all_categories(content, header, categories) ==
    \A row \in DOMAIN content.rows :
        \/ Cell(content, row, header) \in Range(categories)
        \/ isnull(Cell(content, row, header))

\* find_rater_ids
find_rater_ids(content, format, scale_format, categories) ==
    IF format = "Format 1"
    THEN unique(SelectSeq(Column(content, "Rater ID"), LAMBDA item : ~isnull(item)))
    ELSE IF Discrete(scale_format)
    THEN SelectSeq(content.columns,
                   LAMBDA header : all_categories(content, header, categories))
    ELSE SelectSeq(content.columns, LAMBDA header : header # "Subject")

\* find_text: self.text
find_text(content, format, scale_format, categories, ids) ==
    IF format = "Format 1"
    THEN IF Discrete(scale_format)
         THEN SelectSeq(content.columns,
                        LAMBDA header : /\ all_categories(content, header, categories)
                                        /\ header \notin Range(ids)
                                        /\ header # "Categories")
         ELSE SelectSeq(content.columns, LAMBDA header : header # "Rater ID")
    ELSE SelectSeq(Column(content, "Subject"), LAMBDA item : ~isnull(item))

\* find_labels with "=" in place of "+=": the list of the last row only
replace_labels(old, text_label_list) == text_label_list

\* self.labels[rater_id] += text_label_list
add_labels(old, text_label_list) == old \o text_label_list

\* find_labels for Format 1, the rows from row on
RECURSIVE labels_format1(_, _, _, _, _)
labels_format1(content, txt, formatted, row, labels) ==
    IF row > Len(content.rows) THEN labels
    ELSE LET id == Cell(content, row, "Rater ID")
             text_label_list ==
                 [i \in DOMAIN txt |-> <<formatted[i], Cell(content, row, txt[i])>>]
         IN  labels_format1(content, txt, formatted, row + 1,
                 IF isnull(id) THEN labels
                 ELSE DictSet(labels, id, add_labels(DictGet(labels, id), text_label_list)))

\* find_labels for Format 2, the rater ids from k on
RECURSIVE labels_format2(_, _, _, _)
labels_format2(content, ids, k, labels) ==
    IF k > Len(ids) THEN labels
    ELSE LET rows == SelectSeq([row \in DOMAIN content.rows |-> row],
                               LAMBDA row : ~isnull(Cell(content, row, "Subject")))
             text_label_list ==
                 [i \in DOMAIN rows |-> <<Cell(content, rows[i], "Subject"),
                                          Cell(content, rows[i], ids[k])>>]
         IN  labels_format2(content, ids, k + 1,
                 DictSet(labels, ids[k], add_labels(DictGet(labels, ids[k]), text_label_list)))

\* an import that ended with an exception
Failed(content, scale_format, error) ==
    [NoFile EXCEPT !.state = error, !.content = content, !.scale_format = scale_format]

\* FileValidation.__init__ on the table read from the file
FileValidation(content, scale_format) ==
    LET format == check_format(content)
    IN  IF format = "" THEN Failed(content, scale_format, "ValueError")
        ELSE IF Discrete(scale_format) /\ ~HasColumn(content, "Categories")
        THEN Failed(content, scale_format, "KeyError")
        ELSE IF format = "Format 1" /\ ~HasColumn(content, "Rater ID")
        THEN Failed(content, scale_format, "KeyError")
        ELSE IF format = "Format 2" /\ ~HasColumn(content, "Subject")
        THEN Failed(content, scale_format, "KeyError")
        ELSE
        LET categories == IF Discrete(scale_format) THEN find_categories(content) ELSE <<>>
            ids == find_rater_ids(content, format, scale_format, categories)
            txt == find_text(content, format, scale_format, categories, ids)
            formatted == [i \in DOMAIN txt |-> nlp(txt[i])]
        IN  [state |-> "ok", content |-> content, scale_format |-> scale_format,
             format |-> format, categories |-> categories, rater_ids |-> ids,
             text |-> txt, formatted_text |-> formatted,
             labels |-> IF format = "Format 1"
                        THEN labels_format1(content, txt, formatted, 1, <<>>)
                        ELSE labels_format2(content, ids, 1, <<>>)]

\* usr_to_id: "ir_app_" + user, kept as the prefix and the name
usr_to_id(user) == <<"ir_app_", user>>

\* datetime.now().strftime('%Y-%m-%d %H:%M:%S') at the time of the call
Now == "<now>"

\* the row of a DataFrame under the headers of another: a cell for every
\* header the frame has, NaN for the others
Reindex(columns, row, headers) ==
    [i \in DOMAIN headers |->
        IF headers[i] \in Range(columns) THEN row[IndexOf(columns, headers[i])] ELSE NaN]

\* FileValidation.write_file(path, ratings): the DataFrame handed to
\* to_excel or to_csv, or the ValueError of new_df.loc[...] = row for a row
\* that has not one cell per column
write_file(fv, ratings_list) ==
    LET base == IF Discrete(fv.scale_format) THEN <<"Categories", "Rater ID">>
                ELSE <<"Rater ID">>
        columns == base \o (IF fv.format = "Format 1" THEN fv.text ELSE <<>>)
        users == unique([i \in DOMAIN SelectSeq(ratings_list, LAMBDA rating : rating # <<>>)
                           |-> SelectSeq(ratings_list, LAMBDA rating : rating # <<>>)[i][1]])
        \* old_df: the columns of self.content named in columns, renamed
        old_columns == [i \in DOMAIN columns |->
                           IF columns[i] \in Range(fv.text) /\ fv.format = "Format 1"
                           THEN nlp(columns[i]) ELSE columns[i]]
        old_rows == [r \in DOMAIN fv.content.rows |->
                        Reindex(fv.content.columns, fv.content.rows[r], columns)]
        \* new_df: one row per user
        new_columns == base \o fv.formatted_text
        new_row(user) ==
            (IF Discrete(fv.scale_format) THEN <<NaN, usr_to_id(user)>>
             ELSE <<usr_to_id(user)>>)
            \o [i \in DOMAIN ratings_list |->
                   IF ratings_list[i] = <<>> THEN NaN
                   ELSE IF ratings_list[i][1] = user THEN ratings_list[i][2]
                   ELSE NaN]
        new_rows == [u \in DOMAIN users |-> new_row(users[u])]
        \* pd.concat([old_df, new_df]): the columns of both, those of old_df first
        df_columns == old_columns \o SelectSeq(new_columns,
                                               LAMBDA c : c \notin Range(old_columns))
        df_rows == [r \in DOMAIN old_rows |-> Reindex(old_columns, old_rows[r], df_columns)]
                   \o [r \in DOMAIN new_rows |-> Reindex(new_columns, new_rows[r], df_columns)]
        date_col == [r \in DOMAIN old_rows |-> NaN] \o [r \in DOMAIN new_rows |-> Now]
    IN  IF users # <<>> /\ Len(ratings_list) # Len(fv.formatted_text)
        THEN [state |-> "ValueError", table |-> Table(<<>>, <<>>), ratings |-> ratings_list]
        ELSE [state |-> "ok",
              table |-> Table(Append(df_columns, "datum_ir_app"),
                              [r \in DOMAIN df_rows |-> Append(df_rows[r], date_col[r])]),
              ratings |-> ratings_list]

\* ------------------------------------------------------------------------
\* SpecFile: one file is imported and rated, and the ratings are written once
\* ------------------------------------------------------------------------
\* the header rows of the files
Layouts ==
    { <<"Rater ID", "Q1", "Q2.1">>,
      <<"Categories", "Rater ID", "Q1">>,
      <<"Categories", "Subject", "R1">>,
      <<"Subject", "R1">>,
      <<"rater id", "Q1">>,
      <<"subject", "R1">> }

\* the cells a column of the files can hold
CellsOf(header) ==
    CASE lower(header) = "rater id" -> {"A", "B", NaN}
      [] lower(header) = "subject" -> {"S1", "S2.1", NaN}
      [] header = "Categories" -> {"pos", NaN}
      [] OTHER -> {"pos", NaN}

AllCells == {"A", "B", "S1", "S2.1", "pos", NaN}

RowsOf(layout) ==
    {row \in [1..Len(layout) -> AllCells] :
        \A i \in 1..Len(layout) : row[i] \in CellsOf(layout[i])}

\* the column of a header row that check_format decides on
KeyColumn(layout) ==
    CHOOSE i \in 1..Len(layout) : lower(layout[i]) \in {"rater id", "subject"}

\* the files under a header row: up to MaxRows rows, the first row naming
\* a rater or a subject
FilesOf(layout) ==
    UNION { {Table(layout, rows) :
                rows \in {rs \in [1..n -> RowsOf(layout)] :
                             ~isnull(rs[1][KeyColumn(layout)])}}
            : n \in 1..MaxRows }

Files == UNION {FilesOf(layout) : layout \in Layouts}

\* the ratings a session can hand to write_file for n subjects
RatingsFor(n) == [1..n -> {<<>>, <<"p1", "pos">>, <<"p2", "neg">>}]

InitFile ==
    /\ FileIdle
    /\ GuiIdle
    /\ DocIdle
    /\ active_profile = "" /\ profiles = <<>> /\ db_file = to_csv(<<>>)
    /\ last_call = NoCall /\ all_ok = TRUE

\* FileFrame.select_file: FileValidation(filename, self.container.scale_format)
Import ==
    /\ filevalidation.state = "none"
    /\ \E content \in Files, scale_format \in {"nominal", "intervall"} :
          filevalidation' = FileValidation(content, scale_format)
    /\ UNCHANGED <<written, session, ca, rf, storeVars, guiVars, docVars>>

\* RateFrame.save_cmd: self.container.filevalidation.write_file(filename, self.ratings)
WriteFile ==
    /\ filevalidation.state = "ok"
    /\ written.state = "none"
    /\ \E ratings_list \in RatingsFor(Len(filevalidation.formatted_text)) :
          written' = write_file(filevalidation, ratings_list)
    /\ UNCHANGED <<filevalidation, session, ca, rf, storeVars, guiVars, docVars>>

NextFileStep == Import \/ WriteFile

SpecFile == InitFile /\ [][NextFileStep]_vars

\* ------------------------------------------------------------------------
\* FileFrame.select_file on the files of the session
\* ------------------------------------------------------------------------
\* the files of one row under the header rows
SessionFiles ==
    UNION { {Table(layout, <<row>>) :
                row \in {r \in RowsOf(layout) : ~isnull(r[KeyColumn(layout)])}}
            : layout \in Layouts }

\* the try block of select_file that binds the object before the
\* constructor has returned
select_file_binds_first(old, fv) ==
    IF fv.state = "ok"
    THEN [filevalidation |-> fv, categories |-> fv.categories,
          rater_ids |-> fv.rater_ids, text |-> fv.text, labels |-> fv.labels]
    ELSE [old EXCEPT !.filevalidation = fv]

\* the try block of select_file: container.filevalidation is bound when
\* FileValidation(...) has returned, and the attributes are copied from it
select_file_try(old, fv) ==
    IF fv.state = "ok"
    THEN [filevalidation |-> fv, categories |-> fv.categories,
          rater_ids |-> fv.rater_ids, text |-> fv.text, labels |-> fv.labels]
    ELSE old

\* FileFrame.select_file with the file chosen: the import raises and the
\* error box is shown, or the session is replaced and the screen of the
\* session mode is updated and shown
SelectFileImport ==
    /\ frame = "FileFrame"
    /\ callback_error' = ""
    /\ \E content \in SessionFiles, scale_format \in {"nominal", "intervall"} :
          \E fv \in {FileValidation(content, scale_format)} :
              /\ session' = select_file_try(session, fv)
              /\ IF fv.state # "ok"
                 THEN /\ dialog' = "Error"
                      /\ UNCHANGED <<navVars, rateVars, anaVars>>
                 ELSE /\ formatted_text' = fv.formatted_text
                      /\ dialog' = ""
                      /\ UNCHANGED mode
                      /\ IF mode = "analyse"
                         THEN /\ frame' = "AnalyseFrame"
                              /\ UNCHANGED rateVars
                              /\ AnalyseUpdateFrame
                         ELSE IF mode = "rate"
                         THEN /\ frame' = "RateFrame"
                              /\ \E randomized \in BOOLEAN : RateUpdateFrame(randomized)
                              /\ UNCHANGED anaVars
                         ELSE frame' = "MainFrame" /\ UNCHANGED <<rateVars, anaVars>>
    /\ UNCHANGED <<storeVars, prompts, windows, docVars, filevalidation, written, ca, rf>>

NextSession == StartMode \/ ScaleNext \/ SelectFileImport \/ HomeCmd

SpecSession == InitApp /\ [][NextSession]_vars

\* ------------------------------------------------------------------------
\* Claims about the import of a session (SpecSession)
\* ------------------------------------------------------------------------
\* C21: when the import of the chosen file fails, the session state (file
\* validation object, categories, rater ids, text, normalized text, label
\* mapping) is what it was before, the error dialog is shown and the File
\* screen stays current; the state is replaced, all fields together, only
\* by a successful import.
C21_FailedImport ==
    /\ [](/\ session.filevalidation.state \in {"none", "ok"}
          /\ session.categories = session.filevalidation.categories
          /\ session.rater_ids = session.filevalidation.rater_ids
          /\ session.text = session.filevalidation.text
          /\ session.labels = session.filevalidation.labels
          /\ formatted_text = session.filevalidation.formatted_text)
    /\ [][(frame = "FileFrame" /\ dialog' = "Error") =>
             /\ session' = session
             /\ formatted_text' = formatted_text
             /\ frame' = "FileFrame"]_vars
    /\ [][session' # session =>
             /\ frame = "FileFrame" /\ dialog' = ""
             /\ session'.filevalidation.state = "ok"]_vars

\* an import has failed on the File screen of a session that holds the
\* data of an earlier file
C21_Witness ==
    /\ frame = "FileFrame" /\ dialog = "Error"
    /\ session.filevalidation.state = "ok"
    /\ session.text # <<>>

\* ------------------------------------------------------------------------
\* CreateAnalyses and Metrics (core/create_analyses.py, core/metrics.py)
\* ------------------------------------------------------------------------
\* most (subject, value) pairs of a rater in the label mappings
MaxPairs == 2

\* key in ret
HasKey(d, k) == \E i \in DOMAIN d : d[i][1] = k

\* the body of the inner loop of find_inter_ratings for the rater at
\* position i (from 0)
inter_rating(ret, i, rating) ==
    IF HasKey(ret, rating[1])
    THEN IF Len(DictGet(ret, rating[1])) > i
         THEN ret
         ELSE DictSet(ret, rating[1], Append(DictGet(ret, rating[1]), rating[2]))
    ELSE DictSet(ret, rating[1], <<rating[2]>>)

\* for rating in self.data[id], from the n-th on
RECURSIVE inter_ratings_of(_, _, _, _)
inter_ratings_of(ret, i, ratings_list, n) ==
    IF n > Len(ratings_list) THEN ret
    ELSE inter_ratings_of(inter_rating(ret, i, ratings_list[n]), i, ratings_list, n + 1)

\* find_inter_ratings: for i, id in enumerate(self.inter_id_list), from
\* the k-th id on; the dict ret as its items
RECURSIVE find_inter_ratings(_, _, _, _)
find_inter_ratings(data, inter_id_list, k, ret) ==
    IF k > Len(inter_id_list) THEN ret
    ELSE find_inter_ratings(data, inter_id_list, k + 1,
                            inter_ratings_of(ret, k - 1, data[inter_id_list[k]], 1))

\* find_intra_ratings: the replicate values of every subject that are
\* non-empty strings, then the subjects with two values or more
RECURSIVE intra_ratings_of(_, _, _)
intra_ratings_of(ret, ratings_list, n) ==
    IF n > Len(ratings_list) THEN ret
    ELSE LET rating == ratings_list[n]
         IN  intra_ratings_of(
                 IF isnull(rating[2]) \/ rating[2] = "" THEN ret
                 ELSE DictSet(ret, rating[1], Append(DictGet(ret, rating[1]), rating[2])),
                 ratings_list, n + 1)

find_intra_ratings(data, id) ==
    SelectSeq(intra_ratings_of(<<>>, data[id], 1), LAMBDA item : Len(item[2]) >= 2)

\* pd.DataFrame.from_dict(ret, orient="index"): one row per key in
\* insertion order, one column per position, short lists filled with NaN
from_dict(ret) ==
    LET width == IF ret = <<>> THEN 0
                 ELSE CHOOSE w \in {Len(ret[i][2]) : i \in DOMAIN ret} :
                         \A i \in DOMAIN ret : Len(ret[i][2]) <= w
    IN  [i \in DOMAIN ret |->
            [index |-> ret[i][1],
             values |-> [c \in 1..width |->
                           IF c <= Len(ret[i][2]) THEN ret[i][2][c] ELSE NaN]]]

\* the width of a table
Columns(table) == IF table = <<>> THEN {} ELSE DOMAIN table[1].values

\* Metrics.overall_agreement with self.replications = 2. Iterating the
\* DataFrame yields its column labels, self.ratings[subject] is a column,
\* and an integer key on a column indexed by subject names is a position
\* (a KeyError where the library no longer falls back to positions).
\* p_a holds the quotient subject_kk / quantity_subjects of each category.
overall_agreement(categories, table, positional) ==
    LET m == Len(table)
        kk(k) == Cardinality({c \in Columns(table) :
                                 /\ table[1].values[c] = categories[k]
                                 /\ table[1].values[c] = table[2].values[c]})
    IN  IF categories = <<>> THEN [state |-> "ok", p_a |-> <<>>]
        ELSE IF Columns(table) = {}
        THEN IF m = 0 THEN [state |-> "InvalidOperation", p_a |-> <<>>]
             ELSE [state |-> "ok", p_a |-> [k \in DOMAIN categories |-> <<0, m>>]]
        ELSE IF ~positional THEN [state |-> "KeyError", p_a |-> <<>>]
        ELSE IF m < 2 THEN [state |-> "IndexError", p_a |-> <<>>]
        ELSE [state |-> "ok", p_a |-> [k \in DOMAIN categories |-> <<kk(k), m>>]]

\* sequences over S of length up to n
SeqsUpTo(S, n) == UNION {[1..k -> S] : k \in 0..n}

\* the raters, subjects and values of the label mappings
Raters == {"Alice", "Bob"}
SubjectNames == <<"s1", "s2", "s3", "s4">>
InterData == [Raters -> SeqsUpTo({"s1", "s2"} \X {"x", "y"}, MaxPairs)]
InterIdLists == {ids \in SeqsUpTo(Raters, 2) : \A i, j \in DOMAIN ids : ids[i] = ids[j] => i = j}

\* the label lists of a rater who rated n subjects twice, subject after
\* subject, with the values of cells
IntraCells == {"a", "b", "c", NaN}
IntraData(n) ==
    {[id \in {"Alice"} |->
         [i \in 1..(2 * n) |-> <<SubjectNames[((i - 1) % n) + 1], cells[i]>>]]
     : cells \in [1..(2 * n) -> IntraCells]}

\* CreateAnalyses.create_inter_analyses up to the table handed to Metrics
CreateInterAnalyses ==
    /\ ca.op = "none"
    /\ \E data \in InterData, inter_id_list \in InterIdLists :
          \E ret \in {find_inter_ratings(data, inter_id_list, 1, <<>>)} :
              ca' = [NoAnalysis EXCEPT !.op = "inter", !.data = data,
                                       !.ids = inter_id_list, !.ret = ret,
                                       !.table = from_dict(ret)]
    /\ UNCHANGED <<filevalidation, written, session, rf, storeVars, guiVars, docVars>>

\* CreateAnalyses.create_intra_analyses for one id, and overall_agreement
\* of the Metrics object it creates
CreateIntraAnalyses ==
    /\ ca.op = "none"
    /\ \E n \in 1..NumSubjects, positional \in BOOLEAN :
          \E data \in IntraData(n) :
              \E table \in {from_dict(find_intra_ratings(data, "Alice"))} :
              \E res \in {overall_agreement(<<"a", "b">>, table, positional)} :
                  ca' = [NoAnalysis EXCEPT !.op = "intra", !.data = data,
                                           !.ids = <<"Alice">>,
                                           !.categories = <<"a", "b">>,
                                           !.table = table,
                                           !.state = res.state, !.p_a = res.p_a]
    /\ UNCHANGED <<filevalidation, written, session, rf, storeVars, guiVars, docVars>>

NextAnalyses == CreateInterAnalyses \/ CreateIntraAnalyses

SpecAnalyses == InitFile /\ [][NextAnalyses]_vars

Agreeing(categories, table) ==
    {n \in DOMAIN table : /\ table[n].values[1] = table[n].values[2]
                          /\ table[n].values[1] \in Range(categories)}

\* C23: for a ratings table with one row per subject and two replicate
\* columns, overall_agreement returns the number of subjects whose two
\* replicate values are equal and are one of the categories, divided by
\* the number of subjects.
C23_OverallAgreement ==
    (ca.op = "intra" /\ ca.table # <<>>) =>
        /\ ca.state = "ok"
        /\ \A k \in DOMAIN ca.categories :
              ca.p_a[k] = <<Cardinality({n \in Agreeing(ca.categories, ca.table) :
                                           ca.table[n].values[1] = ca.categories[k]}),
                           Len(ca.table)>>

\* ------------------------------------------------------------------------
\* Claims about failed calls of the profile store (SpecStore)
\* ------------------------------------------------------------------------
\* C30: when delete_profile fails because there is no other profile, or
\* change_profile because its target is not among the other profiles, the
\* active profile and the list of others in memory are the same as before
\* the call and nothing is written to the profile file.
C30_FailedCallKeepsStore ==
    (last_call.op \in {"delete_profile", "change_profile"} /\ last_call.raised # "") =>
        /\ active_profile = last_call.pre_active
        /\ profiles = last_call.pre_profiles
        /\ db_file = last_call.pre_file

\* ------------------------------------------------------------------------
\* RateFrame.randomize (gui/rateframe.py)
\* ------------------------------------------------------------------------
\* randomize that puts only the subjects back
randomize_text_only(self, how, permutation) ==
    IF how = "do"
    THEN [self EXCEPT !.shuffler = permutation,
                      !.undo_shuffler = ArgSort(permutation),
                      !.text = Permute(self.text, permutation),
                      !.ratings = Permute(self.ratings, permutation),
                      !.calls = Append(@, how)]
    ELSE [self EXCEPT !.text = Permute(self.text, self.undo_shuffler),
                      !.calls = Append(@, how)]

\* RateFrame.randomize(mode), how being the mode; permutation is what np.random.permutation
\* returns in mode "do"
randomize(self, how, permutation) ==
    IF how = "do"
    THEN [self EXCEPT !.shuffler = permutation,
                      !.undo_shuffler = ArgSort(permutation),
                      !.text = Permute(self.text, permutation),
                      !.ratings = Permute(self.ratings, permutation),
                      !.calls = Append(@, how)]
    ELSE [self EXCEPT !.text = Permute(self.text, self.undo_shuffler),
                      !.ratings = Permute(self.ratings, self.undo_shuffler),
                      !.calls = Append(@, how)]

\* the lists of n distinct subjects
SubjectLists(n) ==
    {t \in [1..n -> {SubjectNames[i] : i \in 1..(NumSubjects + 1)}] :
        \A i, j \in 1..n : t[i] = t[j] => i = j}

\* randomize("do") on a frame with a list of subjects and its ratings
RandomizeDo ==
    /\ rf.calls = <<>>
    /\ \E n \in 1..NumSubjects :
          \E t \in SubjectLists(n), r \in RatingsFor(n), q \in Shuffles(n) :
              rf' = randomize([NoFrame EXCEPT !.text = t, !.ratings = r,
                                              !.text0 = t, !.ratings0 = r], "do", q)
    /\ UNCHANGED <<filevalidation, written, session, ca, storeVars, guiVars, docVars>>

\* randomize("undo") on the frame
RandomizeUndo ==
    /\ rf.calls = <<"do">>
    /\ rf' = randomize(rf, "undo", <<>>)
    /\ UNCHANGED <<filevalidation, written, session, ca, storeVars, guiVars, docVars>>

NextRandomize == RandomizeDo \/ RandomizeUndo

SpecRandomize == InitFile /\ [][NextRandomize]_vars

Canonical(content) ==
    Table([i \in DOMAIN content.columns |->
              IF lower(content.columns[i]) = "rater id" THEN "Rater ID"
              ELSE IF lower(content.columns[i]) = "subject" THEN "Subject"
              ELSE content.columns[i]],
          content.rows)

\* what an import yields, apart from the table itself
Outcome(fv) == [fv EXCEPT !.content = Table(<<>>, <<>>)]

\* C17: a file whose "Rater ID" or "Subject" header is spelled in another
\* letter case is detected as the same format and imported with the same
\* result (rater ids, subjects, labels) as the file with the header spelled
\* "Rater ID" or "Subject".
C17_HeaderCase ==
    filevalidation.state # "none" =>
        LET content == filevalidation.content
            spelled == FileValidation(Canonical(content), filevalidation.scale_format)
        IN  /\ check_format(content) = check_format(Canonical(content))
            /\ Outcome(filevalidation) = Outcome(spelled)

\* the rows of the table whose cell under header is item, in order
RowsWith(content, header, item) ==
    SelectSeq([row \in DOMAIN content.rows |-> row],
              LAMBDA row : Cell(content, row, header) = item)

\* the keys of a dict kept as its items
DictKeys(d) == {d[i][1] : i \in DOMAIN d}

\* C18: for a Format 1 file, rater_ids holds the non-blank Rater ID values
\* once each in first-seen order, and labels[r] is, row after row of rater
\* r, the pairs (normalized subject j, cell of the row under subject j) in
\* subject order, so its length is rows of r times number of subjects.
C18_Format1Labels ==
    (filevalidation.state = "ok" /\ filevalidation.format = "Format 1") =>
        LET content == filevalidation.content
            ids == filevalidation.rater_ids
            n == Len(filevalidation.text)
            first(r) == RowsWith(content, "Rater ID", r)[1]
        IN  /\ Range(ids) = Range(Column(content, "Rater ID")) \ {NaN}
            /\ \A i, j \in DOMAIN ids : i < j => first(ids[i]) < first(ids[j])
            /\ DictKeys(filevalidation.labels) = Range(ids)
            /\ \A r \in Range(ids) :
                  LET rows == RowsWith(content, "Rater ID", r)
                      list == DictGet(filevalidation.labels, r)
                  IN  /\ Len(list) = Len(rows) * n
                      /\ \A k \in DOMAIN rows, j \in 1..n :
                            list[(k - 1) * n + j]
                               = <<filevalidation.formatted_text[j],
                                   Cell(content, rows[k], filevalidation.text[j])>>

\* a Format 1 file with two subjects and two rows of the same rater
C18_Witness ==
    /\ filevalidation.state = "ok" /\ filevalidation.format = "Format 1"
    /\ Len(filevalidation.text) = 2
    /\ \E r \in Range(filevalidation.rater_ids) :
          /\ Len(RowsWith(filevalidation.content, "Rater ID", r)) = 2
          /\ Len(DictGet(filevalidation.labels, r)) = 4

\* C19: for a Format 2 file and a discrete scale, the rater ids are the
\* headers, in header order, of the columns other than Categories whose
\* every non-blank value is a known category; "Categories" is neither a
\* rater id nor a key of the labels.
C19_Format2RaterIds ==
    (/\ filevalidation.state = "ok"
     /\ filevalidation.format = "Format 2"
     /\ Discrete(filevalidation.scale_format)) =>
        LET content == filevalidation.content
            known(header) ==
                \A row \in DOMAIN content.rows :
                    \/ Cell(content, row, header) = NaN
                    \/ Cell(content, row, header) \in Range(filevalidation.categories)
        IN  /\ filevalidation.rater_ids
                  = SelectSeq(content.columns,
                              LAMBDA header : header # "Categories" /\ known(header))
            /\ "Categories" \notin Range(filevalidation.rater_ids)
            /\ "Categories" \notin DictKeys(filevalidation.labels)

\* the distinct profiles of the non-empty ratings, in order of first occurrence
ProfilesOf(ratings_list) ==
    LET given == {i \in DOMAIN ratings_list : ratings_list[i] # <<>>}
        firsts == {i \in given : \A j \in given : j < i => ratings_list[j][1] # ratings_list[i][1]}
        order == SelectSeq([i \in DOMAIN ratings_list |-> i], LAMBDA i : i \in firsts)
    IN  [u \in DOMAIN order |-> ratings_list[order[u]][1]]

\* C20: write_file writes the rows the file had, unchanged and in order
\* (a subject column under its normalized name), then one row per distinct
\* profile of the non-empty ratings in order of first occurrence, with the
\* rater id "ir_app_" + profile and under subject i the value of ratings[i]
\* when that rating is by the profile and a blank otherwise; the timestamp
\* column is blank on the old rows and filled on the new ones.
C20_WriteFile ==
    written.state # "none" =>
        LET content == filevalidation.content
            table == written.table
            old == Len(content.rows)
            users == ProfilesOf(written.ratings)
            name(header) == IF header \in Range(filevalidation.text)
                            THEN nlp(header) ELSE header
        IN  /\ written.state = "ok"
            /\ Len(table.rows) = old + Len(users)
            /\ \A row \in 1..old :
                  /\ \A header \in Range(content.columns) :
                        /\ HasColumn(table, name(header))
                        /\ Cell(table, row, name(header)) = Cell(content, row, header)
                  /\ Cell(table, row, "datum_ir_app") = NaN
            /\ \A u \in DOMAIN users :
                  /\ Cell(table, old + u, "Rater ID") = usr_to_id(users[u])
                  /\ Cell(table, old + u, "datum_ir_app") = Now
                  /\ \A i \in DOMAIN filevalidation.formatted_text :
                        Cell(table, old + u, filevalidation.formatted_text[i])
                           = IF written.ratings[i] # <<>> /\ written.ratings[i][1] = users[u]
                             THEN written.ratings[i][2] ELSE NaN

====
